---- MODULE Spec2Model ----
(***************************************************************************)
(* Student-Drive multimodal ingestion pipeline.                            *)
(*                                                                         *)
(*   SpecPool  worker_manager.py: the shared WorkerManager, its worker     *)
(*             subprocesses (workers/*.py main loops) and the pipeline     *)
(*             runs that call query() from server.py's background tasks.   *)
(*   SpecRun   workflow.py: the LangGraph state machine router ->           *)
(*             {process_youtube, process_media, analyze_layout ->          *)
(*             enrich_content} -> END.                                     *)
(*   SpecGeo   layout_engine.py: calculate_iou / calculate_intersection    *)
(*             on integer pixel boxes.                                     *)
(***************************************************************************)
EXTENDS Integers, Sequences, FiniteSets, TLC

(***************************************************************************)
(* Bounds of the model.                                                    *)
(***************************************************************************)
\* processes the pool may start in one behaviour
MaxProcs == 3
\* query() calls the pipeline runs make in one behaviour, all runs together
MaxCalls == 3
\* total number of blocks the layout stage returns for one document
MaxBlocks == 2
\* number of pages the layout stage returns for one document
MaxPages == 1
\* box coordinates range over 0..MaxCoord
MaxCoord == 2
\* base blocks, table detections and handwriting detections on one page, all
\* together
MaxPageInputs == 4
\* blocks of one document, and transcript segments, handed to the chunker
MaxChunkBlocks == 3
MaxSegments == 2
\* blocks on the page handed to the cleanup of the enrichment stage
MaxCleanBlocks == 3
\* lines written to one worker's standard input
MaxLines == 3

VARIABLES
    \* ---- worker_manager.py ----
    workers,        \* WorkerManager.workers: capability -> pid, NoProc if absent
    script_exists,  \* os.path.exists(worker_paths[name]) (fixed by the deployment)
    nprocs,         \* number of subprocess.Popen calls made so far
    alive,          \* pid -> poll() is None
    hung,           \* pid -> the worker no longer reads its stdin
    stdin,          \* pid -> lines written to the worker and not yet read by it
    stdout,         \* pid -> lines written by the worker and not yet read
    torn,           \* stop_all() has returned
    \* ---- one entry per pipeline run (a threadpool thread of server.py) ----
    pc,             \* position of the run inside WorkerManager.query
    worker_name,    \* query's worker_name argument
    calls,          \* number of query() calls the run has made
    process,        \* query's local `process`
    result,         \* what the last query() gave back
    saw_exited,     \* get_worker found a recorded process that had exited
    spawned,        \* number of processes this call has started
    fresh           \* the pid this call started, NoProc if none

poolVars == <<workers, script_exists, nprocs, alive, hung, stdin, stdout, torn,
              pc, worker_name, calls, process, result, saw_exited, spawned, fresh>>

VARIABLES
    \* ---- workflow.py: one run of app_workflow.invoke ----
    node,           \* the node the compiled graph runs next; "END", or "EXC" when
                    \* invoke() ended by an exception
    keys,           \* the keys the GraphState holds
    file_path,      \* state['file_path']
    file_type,      \* state['file_type']
    status,         \* state['status']
    error,          \* state['error']
    layout_results, \* state['layout_results']
    rag_ready_data, \* state['rag_ready_data']
    trail,          \* the nodes run so far, in order
    temp_audio,     \* the *_temp_audio.wav file exists on disk
    transcript,     \* what yt_api.fetch returned in node_process_youtube
    \* ---- node_enrich_content's loop ----
    epc,            \* position inside node_enrich_content
    page_idx,       \* index of page_data in layout_data
    cleaned_blocks, \* cleaned_blocks of the current page
    block_idx,      \* index of block in cleaned_blocks
    final_pages,    \* final_pages
    visited,        \* <<page index, block index>> of every block the loop reached
    last,           \* the last block handled: before, after, the worker calls made
    \* ---- server.py run_pipeline after app_workflow.invoke ----
    pipe,           \* "graph" while the graph runs, "done" once run_pipeline returned
    json_saved,     \* rag_ready_data.json was written
    chunks,         \* what chunker.process_json returned
    store_log       \* the calls made on vector_db, in order

tailVars == <<pipe, json_saved, chunks, store_log>>

runVars == <<node, keys, file_path, file_type, status, error, layout_results,
             rag_ready_data, trail, temp_audio, transcript, epc, page_idx,
             cleaned_blocks, block_idx, final_pages, visited, last, tailVars>>

VARIABLES
    \* ---- chunking_engine.py: one pipeline output chunked twice ----
    chunk_data,     \* the content of rag_ready_data.json
    chunk_file_id,  \* file_id
    cpc,            \* "start", "first" after the first run, "rerun" after the second
    chunk_runs,     \* how many times process_json ran
    first_chunks,   \* the chunks of the first run
    rerun_chunks    \* the chunks of the re-run

chunkVars == <<chunk_data, chunk_file_id, cpc, chunk_runs, first_chunks, rerun_chunks>>

VARIABLES
    \* ---- layout_engine.py: one evaluation of the overlap scores ----
    boxA, boxB,     \* the two [x0, y0, x1, y1] boxes
    gpc,            \* "start", "iou" once calculate_iou ran, then "done"
    iou_ab,         \* calculate_iou(boxA, boxB)
    iou_ba,         \* calculate_iou(boxB, boxA)
    iou_aa,         \* calculate_iou(boxA, boxA)
    cont_ab,        \* calculate_intersection(boxA, boxB)
    cont_aa         \* calculate_intersection(boxA, boxA)

geoVars == <<boxA, boxB, gpc, iou_ab, iou_ba, iou_aa, cont_ab, cont_aa>>

VARIABLES
    \* ---- layout_engine.py: one page through intelligent_merge ----
    base_blocks,    \* the page's base blocks: [bbox, type, text]
    table_blocks,   \* detect_tables(image): [bbox]
    hw_blocks,      \* detect_handwriting(image): [bbox]
    mpc,            \* "start", "merged" once intelligent_merge returned, "again"
    final_blocks,   \* final_blocks as handed to merge_consecutive_blocks
    hw_trace,       \* per handwriting detection: final_blocks it met, is_isolated
    merged,         \* what intelligent_merge returned
    remerged        \* merge_consecutive_blocks applied to merged

mergeVars == <<base_blocks, table_blocks, hw_blocks, mpc, final_blocks, hw_trace,
               merged, remerged>>

VARIABLES
    \* ---- workflow.py: the loop body of node_enrich_content on one block ----
    block,          \* the block of cleaned_blocks the loop body is given
    table_result,   \* what manager.query("table", ...) gives if it is called
    ocr_results,    \* what manager.query("ocr", ...) gives if it is called
    vlm_result,     \* what manager.query("vlm", ...) gives if it is called
    bpc,            \* "start", "handled" once the loop body has run
    handled         \* the block afterwards, the queries made, whether it raised

blockVars == <<block, table_result, ocr_results, vlm_result, bpc, handled>>

VARIABLES
    \* ---- workflow.py: the cleanup of one page's blocks ----
    page_blocks,    \* page_data['blocks'] as the layout stage returned them
    kpc,            \* "start", "cleaned" once lines 140-144 have run
    kept            \* cleaned_blocks after the cleanup

cleanVars == <<page_blocks, kpc, kept>>

VARIABLES
    \* ---- workers/*.py: the main loop of one worker process ----
    script,         \* the worker script the process runs
    wstdin,         \* the lines on its standard input it has not read yet
    wstdout,        \* the lines it has written to standard output
    consumed,       \* number of lines other than EXIT it has read
    running         \* FALSE once the loop has ended

workerVars == <<script, wstdin, wstdout, consumed, running>>

VARIABLES
    \* ---- server.py, vector_store.py: one file ingested again ----
    collection,     \* the chunks held by the Chroma collection, one per id
    spc,            \* per run_pipeline task: "invoke", "chunked", "deleted", "done"
    run_chunks,     \* per task: what chunker.process_json returned
    inserted        \* the tasks whose add_chunks reached collection.upsert, in order

storeVars == <<collection, spc, run_chunks, inserted>>

vars == <<poolVars, runVars, geoVars, mergeVars, chunkVars, blockVars, cleanVars,
          workerVars, storeVars>>

\* what the worker pool's actions leave alone
notPool == <<runVars, geoVars, mergeVars, chunkVars, blockVars, cleanVars, workerVars, storeVars>>
\* what a pipeline run's actions leave alone
notRun == <<poolVars, geoVars, mergeVars, chunkVars, blockVars, cleanVars, workerVars, storeVars>>
\* what the overlap scores' actions leave alone
notGeo == <<poolVars, runVars, mergeVars, chunkVars, blockVars, cleanVars, workerVars, storeVars>>
\* what the merge engine's actions leave alone
notMerge == <<poolVars, runVars, geoVars, chunkVars, blockVars, cleanVars, workerVars, storeVars>>
\* what the chunker's actions leave alone
notChunk == <<poolVars, runVars, geoVars, mergeVars, blockVars, cleanVars, workerVars, storeVars>>
\* what the enrichment loop body's action leaves alone
notBlock == <<poolVars, runVars, geoVars, mergeVars, chunkVars, cleanVars, workerVars, storeVars>>
\* what the cleanup's action leaves alone
notClean == <<poolVars, runVars, geoVars, mergeVars, chunkVars, blockVars, workerVars, storeVars>>
\* what a worker's main loop leaves alone
notWorker == <<poolVars, runVars, geoVars, mergeVars, chunkVars, blockVars, cleanVars,
              storeVars>>
\* what the re-ingestion's actions leave alone
notStore == <<poolVars, runVars, geoVars, mergeVars, chunkVars, blockVars, cleanVars,
             workerVars>>

(***************************************************************************)
(* Strings. A Python string is modelled as a sequence of tokens; a token   *)
(* is one character (a blank, a line break, "x") or a run of at least two  *)
(* characters that the code treats as a unit (a word, a marker, a file     *)
(* extension, a host name).                                                *)
(***************************************************************************)
Whitespace == {" ", "\n"}
OneChar == Whitespace \cup {"x", "."}
TokLen(tok) == IF tok \in OneChar THEN 1 ELSE 2

RECURSIVE StrLen(_)
\* len(s), exact below 2
StrLen(s) == IF s = <<>> THEN 0 ELSE TokLen(Head(s)) + StrLen(Tail(s))

RECURSIVE LStrip(_)
LStrip(s) == IF s # <<>> /\ Head(s) \in Whitespace THEN LStrip(Tail(s)) ELSE s

Reverse(s) == [i \in 1..Len(s) |-> s[Len(s) + 1 - i]]

\* s.strip()
Strip(s) == Reverse(LStrip(Reverse(LStrip(s))))

\* tok in s, for a token no other token contains
Has(s, tok) == \E i \in 1..Len(s) : s[i] = tok

RECURSIVE JoinLines(_)
\* "\n".join(texts)
JoinLines(texts) ==
    IF texts = <<>> THEN <<>>
    ELSE IF Len(texts) = 1 THEN Head(texts)
    ELSE Head(texts) \o <<"\n">> \o JoinLines(Tail(texts))

(***************************************************************************)
(* workflow.py: routing                                                    *)
(***************************************************************************)
\* workflow.py lines 16-17
SUPPORTED_AUDIO == {"mp3", "wav", "m4a", "flac", "ogg", "aac", "wma"}
SUPPORTED_VIDEO == {"mp4", "mkv", "mov", "avi", "wmv", "webm"}

\* str.lower() on one token
LowerTok(tok) ==
    CASE tok = "MP4" -> "mp4"
      [] tok = "MP3" -> "mp3"
      [] tok = "PPTX" -> "pptx"
      [] tok = "PDF" -> "pdf"
      [] OTHER -> tok

Lower(s) == [i \in 1..Len(s) |-> LowerTok(s[i])]

\* the last position of tok in s, 0 when absent
LastIndex(s, tok) ==
    IF Has(s, tok) THEN CHOOSE i \in 1..Len(s) : s[i] = tok /\ \A j \in (i+1)..Len(s) : s[j] # tok
    ELSE 0

\* os.path.splitext(p)[1]: from the last dot of the last path component, unless
\* that component has only dots before it
SplitExt(path) ==
    LET sep == LastIndex(path, "/")
        dot == LastIndex(path, ".")
    IN  IF dot > sep /\ (\E k \in (sep+1)..(dot-1) : path[k] # ".")
        THEN SubSeq(path, dot, Len(path))
        ELSE <<>>

\* ext in EXTS for a list of ".xyz" strings
ExtIn(ext, exts) == Len(ext) = 2 /\ ext[1] = "." /\ ext[2] \in exts

\* "youtube.com" in file_path or "youtu.be" in file_path
IsYoutube(path) ==
    \E i \in 1..Len(path) : path[i] \in {"youtube.com", "www.youtube.com", "youtu.be"}

\* node_router without .lower() on the extension
RouterType_NoLower(path) ==
    IF IsYoutube(path) THEN "youtube"
    ELSE IF ExtIn(SplitExt(path), SUPPORTED_AUDIO) \/ ExtIn(SplitExt(path), SUPPORTED_VIDEO)
         THEN "media" ELSE "document"

\* node_router: the file_type it returns
RouterType(path) ==
    IF IsYoutube(path) THEN "youtube"
    ELSE IF ExtIn(Lower(SplitExt(path)), SUPPORTED_AUDIO)
            \/ ExtIn(Lower(SplitExt(path)), SUPPORTED_VIDEO)
         THEN "media" ELSE "document"

\* route_next_step
RouteNextStep(st, ft) ==
    IF st = "failed" THEN "END"
    ELSE IF ft = "youtube" THEN "process_youtube"
    ELSE IF ft = "media" THEN "process_media"
    ELSE "analyze_layout"

\* the source identifiers a run is started with (server.py run_pipeline: a
\* downloaded file's local path, or the URL given to /ingest-youtube)
WatchUrl == <<"https://", "www.youtube.com", "/", "watch", "?v=", "id1">>
ShortUrl == <<"https://", "youtu.be", "/", "id1">>
PlaylistUrl == <<"https://", "youtube.com", "/", "playlist">>
YoutubeNamedVideo == <<"youtu.be", "/", "a", ".", "mp4">>
AudioFile == <<"a", ".", "mp3">>
VideoFile == <<"dir", "/", "b", ".", "MP4">>
PdfFile == <<"a", ".", "pdf">>
PptxFile == <<"c", ".", "PPTX">>
UnknownFile == <<"a", ".", "xyz">>
DottedDirFile == <<"d", ".", "mp3", "/", "notes">>
HiddenFile == <<".", "mp3">>

Sources == {WatchUrl, ShortUrl, PlaylistUrl, YoutubeNamedVideo, AudioFile, VideoFile,
            PdfFile, PptxFile, UnknownFile, DottedDirFile, HiddenFile}

(***************************************************************************)
(* workflow.py: stream and media paths                                     *)
(***************************************************************************)
\* urlparse(url).hostname: the host after the scheme, "" (None) without one
Hostname(url) == IF Len(url) >= 2 /\ url[1] = "https://" THEN url[2] ELSE ""

\* urlparse(url).path: from the first "/" after the host up to the query
UrlPath(url) ==
    IF Hostname(url) = "" THEN url
    ELSE LET q == LastIndex(url, "?v=")
         IN  SubSeq(url, 3, IF q = 0 THEN Len(url) ELSE q - 1)

\* parse_qs(query.query).get('v', [None])[0], "" for None
QueryV(url) ==
    LET q == LastIndex(url, "?v=")
    IN  IF q # 0 /\ q < Len(url) THEN url[q + 1] ELSE ""

\* get_video_id, "" for None or an empty id
get_video_id(url) ==
    LET host == Hostname(url)
        path == UrlPath(url)
    IN  IF host = "youtu.be"
        THEN (IF Len(path) >= 2 THEN path[2] ELSE "")
        ELSE IF host \in {"www.youtube.com", "youtube.com"}
        THEN (IF path = <<"/", "watch">> THEN QueryV(url)
              ELSE IF Len(path) >= 4 /\ path[1] = "/" /\ path[2] \in {"embed", "v"} /\ path[3] = "/"
              THEN path[4]
              ELSE "")
        ELSE ""

\* one transcript entry of YouTubeTranscriptApi.fetch, times in hundredths of a second
Entry(start, duration, text) == [start |-> start, duration |-> duration, text |-> text]
Transcripts == {<<>>, <<Entry(0, 150, <<"Hi">>)>>,
                <<Entry(0, 150, <<"Hi">>), Entry(150, 200, <<"there">>)>>}

\* lines 67-73 with the duration taken for the end time
FormatSegments_DurationAsEnd(entries) ==
    [i \in 1..Len(entries) |->
        [start |-> entries[i].start,
         end |-> entries[i].duration,
         text |-> entries[i].text]]

\* node_process_youtube lines 67-73
FormatSegments(entries) ==
    [i \in 1..Len(entries) |->
        [start |-> entries[i].start,
         end |-> entries[i].start + entries[i].duration,
         text |-> entries[i].text]]

\* node_process_youtube before line 64 returned
NoTranscript == [fetched |-> FALSE, entries |-> <<>>]

\* extract_audio_from_video lines 22-30: ffmpeg exits 0 with the audio file
\* written, or fails (the except returns None) before or after it created the
\* output file; nothing removes a file a failed ffmpeg left behind
FfmpegOutcomes == {[ok |-> TRUE, wrote |-> TRUE], [ok |-> FALSE, wrote |-> FALSE],
                   [ok |-> FALSE, wrote |-> TRUE]}

\* what manager.query("audio", path) can give node_process_media
AudioNone == [kind |-> "None", error |-> "", blocks |-> <<>>]
AudioRaise == [kind |-> "raise", error |-> "", blocks |-> <<>>]
AudioError == [kind |-> "dict", error |-> "decode failed", blocks |-> <<>>]
AudioOk(blocks) == [kind |-> "dict", error |-> "", blocks |-> blocks]
AudioOutcomes ==
    {AudioNone, AudioRaise, AudioError, AudioOk(<<>>),
     AudioOk(<<[start |-> 0, end |-> 150, text |-> <<"Hi">>]>>)}

\* one record of rag_ready_data on the stream and media paths
Transcript(source, segments) == [source |-> source, segments |-> segments]

(***************************************************************************)
(* workflow.py: document path                                              *)
(***************************************************************************)
Block(type, action, content, bbox) ==
    [type |-> type, action |-> action, content |-> content, bbox |-> bbox]

Box == <<0, 0, 10, 10>>
FlatBox == <<5, 5, 5, 9>>

\* blocks intelligent_merge hands over for a PDF or an image (lines 162-167,
\* 178-183, 192-195): a table's content is the joined text of the base blocks
\* it consumed, "[EMPTY_TABLE]" when that is empty
MergedBlocks ==
    {Block("text", "extract_text", <<"Hello">>, Box),
     Block("title", "extract_text", <<"x">>, Box),
     Block("table", "extract_table_logic", <<"[EMPTY_TABLE]">>, Box),
     Block("table", "extract_table_logic", <<"[IMAGE_BINARY]">>, Box),
     Block("image", "crop_image", <<"[IMAGE_BINARY]">>, Box),
     Block("image", "crop_image", <<"[IMAGE_BINARY]">>, FlatBox),
     Block("handwriting_region", "send_to_ocr", <<"[HANDWRITING_IMAGE]">>, Box)}

\* blocks process_pptx_structurally hands over (lines 273, 285, 292): a table's
\* content is its rows joined, "" for a table whose only cell is empty
StructuralBlocks ==
    {Block("text", "extract_text", <<"Hello">>, Box),
     Block("table", "extract_table_logic", <<"Q1">>, Box),
     Block("table", "extract_table_logic", <<>>, Box),
     Block("image", "crop_image", <<"[IMAGE_BINARY]">>, Box)}

BlockSeqs(kinds) == UNION {[1..k -> kinds] : k \in 0..MaxBlocks}

\* cut[i] is the number of blocks on pages 1..i
Cuts(n, len) ==
    IF n = 0 THEN (IF len = 0 THEN {<<>>} ELSE {})
    ELSE {cut \in [1..n -> 0..len] :
             /\ \A i \in 1..(n-1) : cut[i] <= cut[i+1]
             /\ cut[n] = len}

PagesOf(bs, n, cut) ==
    [i \in 1..n |->
        [page |-> i,
         blocks |-> SubSeq(bs, (IF i = 1 THEN 0 ELSE cut[i-1]) + 1, cut[i])]]

\* the page lists a handler returns: pages numbered from 1, each with its blocks
Layouts(kinds) ==
    UNION {{PagesOf(x[1], x[2], cut) : cut \in Cuts(x[2], Len(x[1]))} :
              x \in BlockSeqs(kinds) \X (0..MaxPages)}

\* layout_engine.process_file lines 378-386: what the handler chosen by the
\* lower-cased extension can return; [] for an extension it does not know
LayoutsFor(path) ==
    LET ext == Lower(SplitExt(path))
    IN  IF ExtIn(ext, {"pdf", "jpg", "jpeg", "png", "bmp"}) THEN Layouts(MergedBlocks)
        ELSE IF ExtIn(ext, {"pptx", "ppt"}) THEN Layouts(StructuralBlocks)
        ELSE IF ExtIn(ext, {"docx", "doc"}) THEN Layouts(MergedBlocks)
        ELSE {<<>>}

\* layout_engine.process_file: the handlers that open the file and can raise
LayoutCanRaise(path) ==
    ExtIn(Lower(SplitExt(path)),
          {"pdf", "jpg", "jpeg", "png", "bmp", "pptx", "ppt", "docx", "doc"})

\* line 142 measuring the content without .strip()
IsLowSignal_NoStrip(b) ==
    b.type \in {"text", "title"} /\ (b.content = <<>> \/ StrLen(b.content) < 2)

\* node_enrich_content line 142
IsLowSignal(b) ==
    b.type \in {"text", "title"} /\ (b.content = <<>> \/ StrLen(Strip(b.content)) < 2)

\* node_enrich_content lines 140-144
Clean(blocks) == SelectSeq(blocks, LAMBDA b : ~IsLowSignal(b))

\* node_enrich_content line 160
Degenerate(bbox) == bbox[3] <= bbox[1] \/ bbox[4] <= bbox[2]

\* what manager.query gives for each capability during enrichment
TableOutcomes ==
    {[kind |-> "None", markdown |-> <<>>], [kind |-> "raise", markdown |-> <<>>]}
    \cup {[kind |-> "dict", markdown |-> m] :
            m \in {<<"|a|b|">>, <<"[TABLE_STRUCTURE_NOT_DETECTED]">>,
                   <<"[TABLE_RECONSTRUCTION_FAILED]">>, <<>>}}
OcrOutcomes ==
    {[kind |-> "None", texts |-> <<>>], [kind |-> "raise", texts |-> <<>>]}
    \cup {[kind |-> "list", texts |-> ts] :
            ts \in {<<>>, << <<"Hi">> >>, << <<" ">> >>, << <<"Hi">>, <<"there">> >>}}
VlmOutcomes ==
    {[kind |-> "None", description |-> <<>>], [kind |-> "raise", description |-> <<>>]}
    \cup {[kind |-> "dict", description |-> d] : d \in {<<"A cat">>, <<>>}}

\* "[TABLE_" in markdown
HasTablePlaceholder(markdown) ==
    \E i \in 1..Len(markdown) :
        markdown[i] \in {"[TABLE_STRUCTURE_NOT_DETECTED]", "[TABLE_RECONSTRUCTION_FAILED]"}

\* the outcome of one pass of the loop body: the block, the capabilities
\* queried in order, and whether the except clause of line 212 ran
Handled(b, log, raised) == [block |-> b, log |-> log, raised |-> raised]

\* node_enrich_content lines 167-186
EnrichTable(b, tq, oq) ==
    IF ~(Strip(b.content) = <<>> \/ Has(b.content, "[IMAGE_BINARY]"))
    THEN Handled(b, <<>>, FALSE)
    ELSE IF tq.kind = "raise" THEN Handled(b, <<"table">>, TRUE)
    ELSE LET markdown == IF tq.kind = "dict" THEN tq.markdown ELSE <<>>
         IN  IF markdown # <<>> /\ ~HasTablePlaceholder(markdown)
             THEN Handled([b EXCEPT !.content = markdown,
                                    !.action = "local_table_reconstructed"],
                          <<"table">>, FALSE)
             ELSE IF oq.kind = "raise" THEN Handled(b, <<"table", "ocr">>, TRUE)
             ELSE IF oq.kind = "list"
             THEN LET detected_text == JoinLines(oq.texts)
                  IN  Handled([b EXCEPT !.content = IF Strip(detected_text) # <<>>
                                                    THEN detected_text
                                                    ELSE <<"[NO_TEXT_FOUND]">>,
                                         !.action = "table_fallback_ocr"],
                              <<"table", "ocr">>, FALSE)
             ELSE Handled(b, <<"table", "ocr">>, FALSE)

\* node_enrich_content lines 189-196
EnrichImage(b, vq) ==
    IF vq.kind = "raise" THEN Handled(b, <<"vlm">>, TRUE)
    ELSE IF vq.kind = "dict"
    THEN Handled([b EXCEPT !.content = <<"[IMAGE_DESCRIPTION]", "\n">> \o vq.description,
                           !.action = "vlm_described"],
                 <<"vlm">>, FALSE)
    ELSE Handled(b, <<"vlm">>, FALSE)

\* lines 199-210 with the else branch of line 208 missing
EnrichOcr_DropEmpty(b, oq) ==
    IF oq.kind = "list" /\ Strip(JoinLines(oq.texts)) # <<>>
    THEN Handled([b EXCEPT !.content = JoinLines(oq.texts), !.action = "ocr_extracted"],
                 <<"ocr">>, FALSE)
    ELSE Handled(b, <<"ocr">>, oq.kind = "raise")

\* node_enrich_content lines 199-210
EnrichOcr(b, oq) ==
    IF oq.kind = "raise" THEN Handled(b, <<"ocr">>, TRUE)
    ELSE IF oq.kind = "list"
    THEN LET detected_text == JoinLines(oq.texts)
         IN  IF Strip(detected_text) # <<>>
             THEN Handled([b EXCEPT !.content = detected_text, !.action = "ocr_extracted"],
                          <<"ocr">>, FALSE)
             ELSE Handled([b EXCEPT !.content = <<"[OCR_NO_TEXT_FOUND]">>], <<"ocr">>, FALSE)
    ELSE Handled(b, <<"ocr">>, FALSE)

\* node_enrich_content lines 155-217: the loop body on one block
EnrichOne(b, tq, oq, vq) ==
    IF Degenerate(b.bbox) THEN Handled(b, <<>>, FALSE)
    ELSE IF b.type = "table" THEN EnrichTable(b, tq, oq)
    ELSE IF b.action = "crop_image" /\ b.type = "image" THEN EnrichImage(b, vq)
    ELSE IF b.action = "send_to_ocr" THEN EnrichOcr(b, oq)
    ELSE Handled(b, <<>>, FALSE)

\* blocks a page can hold before the cleanup: text and titles with content
\* that is empty, blank, one character, one character between blanks, or
\* longer, and blocks of the other types with and without content
CleanInputs ==
    {Block("text", "extract_text", <<"Hello">>, Box),
     Block("text", "extract_text", <<>>, Box),
     Block("text", "extract_text", <<" ", "x", "\n">>, Box),
     Block("title", "extract_text", <<" ", " ">>, Box),
     Block("title", "extract_text", <<"x">>, Box),
     Block("title", "extract_text", <<" ", "Q1">>, Box),
     Block("table", "extract_table_logic", <<>>, Box),
     Block("image", "crop_image", <<"[IMAGE_BINARY]">>, Box),
     Block("handwriting_region", "send_to_ocr", <<"[HANDWRITING_IMAGE]">>, Box)}

InitClean ==
    /\ page_blocks \in UNION {[1..k -> CleanInputs] : k \in 0..MaxCleanBlocks}
    /\ kpc = "start"
    /\ kept = <<>>

\* no page being cleaned
ParkedClean ==
    /\ page_blocks = <<>>
    /\ kpc = "cleaned"
    /\ kept = <<>>

\* node_enrich_content lines 140-144 on one page
CleanPage ==
    /\ kpc = "start"
    /\ kept' = Clean(page_blocks)
    /\ kpc' = "cleaned"
    /\ UNCHANGED page_blocks
    /\ UNCHANGED notClean

NextClean == CleanPage

\* the blocks the loop body can be given: those of both layout paths
EnrichInputs == MergedBlocks \cup StructuralBlocks

InitBlock ==
    /\ block \in EnrichInputs
    /\ table_result \in TableOutcomes
    /\ ocr_results \in OcrOutcomes
    /\ vlm_result \in VlmOutcomes
    /\ bpc = "start"
    /\ handled = Handled(block, <<>>, FALSE)

\* no block in the loop body
ParkedBlock ==
    /\ block = Block("", "", <<>>, <<0, 0, 0, 0>>)
    /\ table_result = [kind |-> "None", markdown |-> <<>>]
    /\ ocr_results = [kind |-> "None", texts |-> <<>>]
    /\ vlm_result = [kind |-> "None", description |-> <<>>]
    /\ bpc = "handled"
    /\ handled = Handled(block, <<>>, FALSE)

\* node_enrich_content lines 155-217 on one block
EnrichLoopBody ==
    /\ bpc = "start"
    /\ handled' = EnrichOne(block, table_result, ocr_results, vlm_result)
    /\ bpc' = "handled"
    /\ UNCHANGED <<block, table_result, ocr_results, vlm_result>>
    /\ UNCHANGED notBlock

NextBlock == EnrichLoopBody

(***************************************************************************)
(* chunking_engine.py                                                      *)
(***************************************************************************)
\* a paragraph longer than the splitter's chunk_size
LongText == "(a paragraph of 1200 characters)"

RECURSIVE PyLen(_)
\* len(s) in characters
PyLen(s) ==
    IF s = <<>> THEN 0
    ELSE (IF Head(s) = LongText THEN 1200 ELSE Len(Head(s))) + PyLen(Tail(s))

\* text_splitter.split_text(content) with chunk_size=1000, chunk_overlap=200:
\* nothing for blank text, the stripped text when it fits, else two pieces
SplitText(content) ==
    IF Strip(content) = <<>> THEN <<>>
    ELSE IF PyLen(Strip(content)) <= 1000 THEN <<Strip(content)>>
    ELSE <<Strip(content), Strip(content)>>

\* f"{file_id}_p{page_num}_{block['bbox'][1]}" (part -1), f"..._{i}" (part i),
\* f"{file_id}_audio_{start_time}" (kind "audio", page 0, part -1)
ChunkId(file_id, kind, page, pos, part) ==
    [file_id |-> file_id, kind |-> kind, page |-> page, pos |-> pos, part |-> part]

Chunk(id, text, type) == [id |-> id, text |-> text, type |-> type]

\* process_json lines 33-37
FinalType(b) ==
    IF b.type = "table" THEN "table"
    ELSE IF b.type = "image" \/ b.action = "vlm_described" THEN "image_description"
    ELSE IF b.type = "handwritten" THEN "handwritten_text"
    ELSE IF b.type = "title" THEN "title"
    ELSE "text"

\* process_json lines 26-65: the chunks of one block
BlockChunks(b, page_num, file_id) ==
    IF b.content = <<>> \/ PyLen(b.content) < 5 THEN <<>>
    ELSE IF FinalType(b) = "table"
    THEN <<Chunk(ChunkId(file_id, "p", page_num, b.bbox[2], -1), b.content, "table")>>
    ELSE [i \in 1..Len(SplitText(b.content)) |->
             Chunk(ChunkId(file_id, "p", page_num, b.bbox[2], i - 1),
                   SplitText(b.content)[i], FinalType(b))]

RECURSIVE Flatten(_)
Flatten(ss) == IF ss = <<>> THEN <<>> ELSE Head(ss) \o Flatten(Tail(ss))

\* process_json lines 23-25: page.get('page', 1), page.get('blocks', [])
PageChunks(page, file_id) ==
    IF "blocks" \notin DOMAIN page THEN <<>>
    ELSE Flatten([j \in 1..Len(page.blocks) |->
                     BlockChunks(page.blocks[j], page.page, file_id)])

RECURSIVE AudioWalk(_, _, _, _, _)
\* _process_audio lines 74-102: segments gathered until the text passes 1000
\* characters; a chunk takes the start of its first segment
AudioWalk(segs, current_chunk, start_time, out, file_id) ==
    IF segs = <<>>
    THEN IF current_chunk # <<>>
         THEN Append(out, Chunk(ChunkId(file_id, "audio", 0, start_time, -1),
                                Strip(current_chunk), "audio_transcript"))
         ELSE out
    ELSE LET start == IF current_chunk = <<>> THEN Head(segs).start ELSE start_time
             grown == current_chunk \o Head(segs).text \o <<" ">>
         IN  IF PyLen(grown) > 1000
             THEN AudioWalk(Tail(segs), <<>>, start,
                            Append(out, Chunk(ChunkId(file_id, "audio", 0, start, -1),
                                              Strip(grown), "audio_transcript")),
                            file_id)
             ELSE AudioWalk(Tail(segs), grown, start, out, file_id)

\* _process_audio
ProcessAudio(data, file_id) == AudioWalk(data[1].segments, <<>>, 0, <<>>, file_id)

\* line 19: the data is an audio transcription
IsAudioData(data) ==
    /\ Len(data) > 0
    /\ "source" \in DOMAIN data[1]
    /\ data[1].source = "audio_transcription"

\* process_json numbering its chunks with a counter that lives across runs
process_json_Counted(data, file_id) ==
    LET cs == IF IsAudioData(data) THEN ProcessAudio(data, file_id)
              ELSE Flatten([p \in 1..Len(data) |-> PageChunks(data[p], file_id)])
    IN  [k \in 1..Len(cs) |-> [cs[k] EXCEPT !.id.part = 10 * chunk_runs + k]]

\* process_json
process_json(data, file_id) ==
    IF IsAudioData(data) THEN ProcessAudio(data, file_id)
    ELSE Flatten([p \in 1..Len(data) |-> PageChunks(data[p], file_id)])

(***************************************************************************)
(* workflow.py: the graph                                                  *)
(***************************************************************************)
NoBlock == Block("", "", <<>>, <<0, 0, 0, 0>>)
NoneHandled == [pre |-> NoBlock, post |-> NoBlock, log |-> <<>>, raised |-> FALSE]

\* server.py run_pipeline line 61: inputs = {"file_path": ..., "file_id": ...}
InitRun ==
    /\ node = "router"
    /\ keys = {"file_path", "file_id"}
    /\ file_path \in Sources
    /\ file_type = ""
    /\ status = ""
    /\ error = ""
    /\ layout_results = <<>>
    /\ rag_ready_data = <<>>
    /\ trail = <<>>
    /\ temp_audio = FALSE
    /\ transcript = NoTranscript
    /\ epc = "entry"
    /\ page_idx = 0
    /\ cleaned_blocks = <<>>
    /\ block_idx = 0
    /\ final_pages = <<>>
    /\ visited = {}
    /\ last = NoneHandled
    /\ pipe = "graph"
    /\ json_saved = FALSE
    /\ chunks = <<>>
    /\ store_log = <<>>

\* no pipeline run
ParkedRun ==
    /\ node = "END"
    /\ keys = {}
    /\ file_path = <<>>
    /\ file_type = ""
    /\ status = ""
    /\ error = ""
    /\ layout_results = <<>>
    /\ rag_ready_data = <<>>
    /\ trail = <<>>
    /\ temp_audio = FALSE
    /\ transcript = NoTranscript
    /\ epc = "entry"
    /\ page_idx = 0
    /\ cleaned_blocks = <<>>
    /\ block_idx = 0
    /\ final_pages = <<>>
    /\ visited = {}
    /\ last = NoneHandled
    /\ pipe = "done"
    /\ json_saved = FALSE
    /\ chunks = <<>>
    /\ store_log = <<>>

enrichVars == <<epc, page_idx, cleaned_blocks, block_idx, final_pages, visited, last>>

\* node_router, then the conditional edge route_next_step
NodeRouter ==
    /\ node = "router"
    /\ file_type' = RouterType(file_path)
    /\ status' = "routed"
    /\ keys' = keys \cup {"file_type", "status"}
    /\ node' = RouteNextStep("routed", RouterType(file_path))
    /\ trail' = Append(trail, "router")
    /\ UNCHANGED <<file_path, error, layout_results, rag_ready_data, temp_audio, transcript, enrichVars>>
    /\ UNCHANGED tailVars
    /\ UNCHANGED notRun

\* node_process_youtube, then the edge to END
NodeProcessYoutube ==
    /\ node = "process_youtube"
    /\ trail' = Append(trail, "process_youtube")
    /\ node' = "END"
    /\ IF get_video_id(file_path) = ""
       THEN /\ error' = "Invalid YouTube URL"
            /\ status' = "failed"
            /\ keys' = keys \cup {"error", "status"}
            /\ UNCHANGED <<rag_ready_data, transcript>>
       ELSE \/ \E fetched \in Transcripts :
                 /\ transcript' = [fetched |-> TRUE, entries |-> fetched]
                 /\ rag_ready_data' =
                       <<Transcript("youtube_transcript", FormatSegments(fetched))>>
                 /\ status' = "completed"
                 /\ keys' = keys \cup {"rag_ready_data", "status"}
                 /\ UNCHANGED error
            \/ /\ error' = "Transcript unavailable"
               /\ status' = "failed"
               /\ keys' = keys \cup {"error", "status"}
               /\ UNCHANGED <<rag_ready_data, transcript>>
    /\ UNCHANGED <<file_path, file_type, layout_results, temp_audio, enrichVars>>
    /\ UNCHANGED tailVars
    /\ UNCHANGED notRun

\* node_process_media, then the edge to END; an exception of manager.query
\* leaves the node and ends invoke()
NodeProcessMedia ==
    /\ node = "process_media"
    /\ trail' = Append(trail, "process_media")
    /\ \E ffmpeg \in FfmpegOutcomes, q \in AudioOutcomes :
          LET is_video == ExtIn(Lower(SplitExt(file_path)), SUPPORTED_VIDEO)
          IN  IF is_video /\ ~ffmpeg.ok
              THEN /\ error' = "Video extraction failed"
                   /\ status' = "failed"
                   /\ keys' = keys \cup {"error", "status"}
                   /\ node' = "END"
                   /\ temp_audio' = ffmpeg.wrote
                   /\ UNCHANGED rag_ready_data
              ELSE IF q.kind = "raise"
              THEN /\ node' = "EXC"
                   /\ temp_audio' = is_video
                   /\ UNCHANGED <<error, status, keys, rag_ready_data>>
              ELSE IF q.kind = "None" \/ q.error # ""
              THEN /\ error' = (IF q.kind = "None" THEN "None" ELSE q.error)
                   /\ status' = "failed"
                   /\ keys' = keys \cup {"error", "status"}
                   /\ node' = "END"
                   /\ temp_audio' = FALSE
                   /\ UNCHANGED rag_ready_data
              ELSE /\ rag_ready_data' = <<Transcript("audio_transcription", q.blocks)>>
                   /\ status' = "completed"
                   /\ keys' = keys \cup {"rag_ready_data", "status"}
                   /\ node' = "END"
                   /\ temp_audio' = FALSE
                   /\ UNCHANGED error
    /\ UNCHANGED <<file_path, file_type, layout_results, transcript, enrichVars>>
    /\ UNCHANGED tailVars
    /\ UNCHANGED notRun

\* node_analyze_layout, then the edge analyze_layout -> enrich_content
NodeAnalyzeLayout ==
    /\ node = "analyze_layout"
    /\ trail' = Append(trail, "analyze_layout")
    /\ node' = "enrich_content"
    /\ \/ \E results \in LayoutsFor(file_path) :
             /\ layout_results' = results
             /\ status' = "analyzed"
             /\ keys' = keys \cup {"layout_results", "status"}
             /\ UNCHANGED error
       \/ /\ LayoutCanRaise(file_path)
          /\ error' = "layout error"
          /\ status' = "failed"
          /\ keys' = keys \cup {"error", "status"}
          /\ UNCHANGED layout_results
    /\ UNCHANGED <<file_path, file_type, rag_ready_data, temp_audio, transcript, enrichVars>>
    /\ UNCHANGED tailVars
    /\ UNCHANGED notRun

\* node_enrich_content line 129: state['layout_results'] is a KeyError when
\* no node has written that key
EnrichEnter ==
    /\ node = "enrich_content" /\ epc = "entry"
    /\ trail' = Append(trail, "enrich_content")
    /\ IF "layout_results" \in keys
       THEN /\ epc' = "page"
            /\ page_idx' = 1
            /\ UNCHANGED node
       ELSE /\ node' = "EXC"
            /\ UNCHANGED <<epc, page_idx>>
    /\ UNCHANGED <<keys, file_path, file_type, status, error, layout_results,
                   rag_ready_data, temp_audio, transcript, cleaned_blocks, block_idx,
                   final_pages, visited, last>>
    /\ UNCHANGED tailVars
    /\ UNCHANGED notRun

\* node_enrich_content lines 136-152: the next page, its cleanup and its image;
\* line 221 once the pages are exhausted, then the edge to END
EnrichPage ==
    /\ node = "enrich_content" /\ epc = "page"
    /\ IF page_idx > Len(layout_results)
       THEN /\ rag_ready_data' = final_pages
            /\ status' = "completed"
            /\ keys' = keys \cup {"rag_ready_data", "status"}
            /\ node' = "END"
            /\ epc' = "done"
            /\ UNCHANGED <<page_idx, cleaned_blocks, block_idx>>
       ELSE /\ \E image_exists \in BOOLEAN :
                 IF image_exists
                 THEN /\ cleaned_blocks' = Clean(layout_results[page_idx].blocks)
                      /\ block_idx' = 1
                      /\ epc' = "block"
                      /\ UNCHANGED page_idx
                 ELSE /\ page_idx' = page_idx + 1
                      /\ cleaned_blocks' = <<>>
                      /\ UNCHANGED <<block_idx, epc>>
            /\ UNCHANGED <<rag_ready_data, status, keys, node>>
    /\ UNCHANGED <<file_path, file_type, error, layout_results, trail, temp_audio, transcript,
                   final_pages, visited, last>>
    /\ UNCHANGED tailVars
    /\ UNCHANGED notRun

\* lines 154-217 without the except clause of line 212: an exception of the
\* loop body leaves node_enrich_content
EnrichBlock_NoExcept ==
    /\ node = "enrich_content" /\ epc = "block"
    /\ block_idx <= Len(cleaned_blocks)
    /\ \E h \in {EnrichOne(cleaned_blocks[block_idx], tq, oq, vq) :
                      tq \in TableOutcomes, oq \in OcrOutcomes, vq \in VlmOutcomes} :
          /\ cleaned_blocks' = [cleaned_blocks EXCEPT ![block_idx] = h.block]
          /\ last' = [pre |-> cleaned_blocks[block_idx], post |-> h.block,
                      log |-> h.log, raised |-> h.raised]
          /\ node' = IF h.raised THEN "EXC" ELSE node
    /\ visited' = visited \cup {<<page_idx, block_idx>>}
    /\ block_idx' = block_idx + 1
    /\ UNCHANGED <<keys, file_path, file_type, status, error, layout_results,
                   rag_ready_data, trail, temp_audio, transcript, epc, page_idx, final_pages>>
    /\ UNCHANGED tailVars
    /\ UNCHANGED notRun

\* node_enrich_content lines 154-217: one pass of the loop over cleaned_blocks
EnrichBlock ==
    /\ node = "enrich_content" /\ epc = "block"
    /\ block_idx <= Len(cleaned_blocks)
    /\ \E h \in {EnrichOne(cleaned_blocks[block_idx], tq, oq, vq) :
                      tq \in TableOutcomes, oq \in OcrOutcomes, vq \in VlmOutcomes} :
          /\ cleaned_blocks' = [cleaned_blocks EXCEPT ![block_idx] = h.block]
          /\ last' = [pre |-> cleaned_blocks[block_idx], post |-> h.block,
                      log |-> h.log, raised |-> h.raised]
    /\ visited' = visited \cup {<<page_idx, block_idx>>}
    /\ block_idx' = block_idx + 1
    /\ UNCHANGED <<node, keys, file_path, file_type, status, error, layout_results,
                   rag_ready_data, trail, temp_audio, transcript, epc, page_idx, final_pages>>
    /\ UNCHANGED tailVars
    /\ UNCHANGED notRun

\* node_enrich_content line 219: final_pages.append once the blocks are done
EnrichAppend ==
    /\ node = "enrich_content" /\ epc = "block"
    /\ block_idx > Len(cleaned_blocks)
    /\ final_pages' = Append(final_pages,
                             [page |-> layout_results[page_idx].page,
                              blocks |-> cleaned_blocks])
    /\ page_idx' = page_idx + 1
    /\ epc' = "page"
    /\ cleaned_blocks' = <<>>
    /\ UNCHANGED <<node, keys, file_path, file_type, status, error, layout_results,
                   rag_ready_data, trail, temp_audio, transcript, block_idx, visited, last>>
    /\ UNCHANGED tailVars
    /\ UNCHANGED notRun

\* run_pipeline passes file_id to the chunker
RunFileId == "file1"

\* run_pipeline without the status test of lines 64-66
RunPipelineFinish_NoStatusTest ==
    /\ pipe = "graph"
    /\ node \in {"END", "EXC"}
    /\ pipe' = "done"
    /\ IF node = "EXC"
       THEN UNCHANGED <<json_saved, chunks, store_log>>
       ELSE /\ json_saved' = TRUE
            /\ chunks' = process_json(rag_ready_data, RunFileId)
            /\ IF process_json(rag_ready_data, RunFileId) = <<>>
               THEN UNCHANGED store_log
               ELSE \E embedded \in BOOLEAN :
                       store_log' = IF embedded THEN <<"delete", "upsert">>
                                    ELSE <<"delete">>
    /\ UNCHANGED <<node, keys, file_path, file_type, status, error, layout_results,
                   rag_ready_data, trail, temp_audio, transcript, enrichVars>>
    /\ UNCHANGED notRun

\* server.py run_pipeline lines 62-97, after app_workflow.invoke: an exception
\* of the graph is caught by line 95; a failed run returns at line 66; else the
\* JSON is saved and chunked, and a non-empty chunk list replaces the file's
\* chunks in the vector store (add_chunks stores nothing when embedding fails)
RunPipelineFinish ==
    /\ pipe = "graph"
    /\ node \in {"END", "EXC"}
    /\ pipe' = "done"
    /\ IF node = "EXC" \/ status = "failed"
       THEN UNCHANGED <<json_saved, chunks, store_log>>
       ELSE /\ json_saved' = TRUE
            /\ chunks' = process_json(rag_ready_data, RunFileId)
            /\ IF process_json(rag_ready_data, RunFileId) = <<>>
               THEN UNCHANGED store_log
               ELSE \E embedded \in BOOLEAN :
                       store_log' = IF embedded THEN <<"delete", "upsert">>
                                    ELSE <<"delete">>
    /\ UNCHANGED <<node, keys, file_path, file_type, status, error, layout_results,
                   rag_ready_data, trail, temp_audio, transcript, enrichVars>>
    /\ UNCHANGED notRun

NextRun ==
    \/ RunPipelineFinish
    \/ NodeRouter
    \/ NodeProcessYoutube
    \/ NodeProcessMedia
    \/ NodeAnalyzeLayout
    \/ EnrichEnter
    \/ EnrichPage
    \/ EnrichBlock
    \/ EnrichAppend

(***************************************************************************)
(* layout_engine.py: overlap scores. A score is the pair <<n, d>> of the   *)
(* operands of the final division n / d; the integer 0 the code returns    *)
(* without dividing is <<0, 1>>. d = 0 stands for a ZeroDivisionError.     *)
(***************************************************************************)
Max(a, b) == IF a >= b THEN a ELSE b
Min(a, b) == IF a <= b THEN a ELSE b

Boxes == (0..MaxCoord) \X (0..MaxCoord) \X (0..MaxCoord) \X (0..MaxCoord)

\* (box[2] - box[0]) * (box[3] - box[1])
BoxArea(box) == (box[3] - box[1]) * (box[4] - box[2])

\* calculate_iou lines 96-100, calculate_intersection lines 108-112
InterArea(a, b) ==
    LET xA == Max(a[1], b[1])
        yA == Max(a[2], b[2])
        xB == Min(a[3], b[3])
        yB == Min(a[4], b[4])
    IN  Max(0, xB - xA) * Max(0, yB - yA)

ZeroScore == <<0, 1>>

\* calculate_iou dividing by boxA's area instead of the smaller area
calculate_iou_OverA(a, b) ==
    IF Min(BoxArea(a), BoxArea(b)) = 0 THEN ZeroScore
    ELSE <<InterArea(a, b), BoxArea(a)>>

\* calculate_iou
calculate_iou(a, b) ==
    IF Min(BoxArea(a), BoxArea(b)) = 0 THEN ZeroScore
    ELSE <<InterArea(a, b), Min(BoxArea(a), BoxArea(b))>>

\* calculate_intersection dividing by boxA's area instead of boxB's
calculate_intersection_OverA(a, b) ==
    IF BoxArea(b) = 0 THEN ZeroScore
    ELSE <<InterArea(a, b), BoxArea(a)>>

\* calculate_intersection
calculate_intersection(a, b) ==
    IF BoxArea(b) = 0 THEN ZeroScore
    ELSE <<InterArea(a, b), BoxArea(b)>>

InitGeo ==
    /\ boxA \in Boxes
    /\ boxB \in Boxes
    /\ gpc = "start"
    /\ iou_ab = ZeroScore
    /\ iou_ba = ZeroScore
    /\ iou_aa = ZeroScore
    /\ cont_ab = ZeroScore
    /\ cont_aa = ZeroScore

\* no score being evaluated
ParkedGeo ==
    /\ boxA = <<0, 0, 0, 0>>
    /\ boxB = <<0, 0, 0, 0>>
    /\ gpc = "done"
    /\ iou_ab = ZeroScore
    /\ iou_ba = ZeroScore
    /\ iou_aa = ZeroScore
    /\ cont_ab = ZeroScore
    /\ cont_aa = ZeroScore

\* intelligent_merge line 189: the IoU of a pair of boxes, in both orders
ScoreIoU ==
    /\ gpc = "start"
    /\ iou_ab' = calculate_iou(boxA, boxB)
    /\ iou_ba' = calculate_iou(boxB, boxA)
    /\ iou_aa' = calculate_iou(boxA, boxA)
    /\ gpc' = "iou"
    /\ UNCHANGED <<boxA, boxB, cont_ab, cont_aa>>
    /\ UNCHANGED notGeo

\* intelligent_merge line 155: the containment of boxB in boxA
ScoreContainment ==
    /\ gpc = "iou"
    /\ cont_ab' = calculate_intersection(boxA, boxB)
    /\ cont_aa' = calculate_intersection(boxA, boxA)
    /\ gpc' = "done"
    /\ UNCHANGED <<boxA, boxB, iou_ab, iou_ba, iou_aa>>
    /\ UNCHANGED notGeo

NextGeo ==
    \/ ScoreIoU
    \/ ScoreContainment

(***************************************************************************)
(* layout_engine.py: the merge engine                                      *)
(***************************************************************************)
\* merge_consecutive_blocks line 129: next_top - curr_bottom < 50
MergeGap == 50

\* score > n/d for a score <<s1, s2>> (s2 # 0) and a positive d
ScoreAbove(s, n, d) ==
    IF s[2] > 0 THEN s[1] * d > n * s[2] ELSE s[1] * d < n * s[2]

BaseBlock(bbox, type, text) == [bbox |-> bbox, type |-> type, text |-> text]

\* the base blocks a page can have (process_pdf line 234, get_text_from_image_ocr)
BaseCandidates ==
    {BaseBlock(<<0, 0, 100, 20>>, "text", <<"Hello">>),
     BaseBlock(<<10, 25, 50, 45>>, "title", <<"Q1", " ", "Revenue">>),
     BaseBlock(<<0, 300, 100, 320>>, "text", <<"Far">>),
     BaseBlock(<<0, 190, 100, 230>>, "image", <<"[IMAGE_BINARY]">>)}

\* the table detections of detect_tables
TableCandidates == {[bbox |-> <<0, 0, 200, 200>>], [bbox |-> <<0, 210, 200, 260>>]}

\* the handwriting detections of detect_handwriting
HwCandidates ==
    {[bbox |-> <<0, 0, 100, 20>>], [bbox |-> <<20, 5, 40, 15>>],
     [bbox |-> <<300, 400, 400, 500>>]}

SeqsUpTo(S, n) == UNION {[1..k -> S] : k \in 0..n}

RECURSIVE InsertByTop(_, _)
\* b placed after every block whose top is not below b's own (a stable sort)
InsertByTop(b, sorted) ==
    IF sorted = <<>> THEN <<b>>
    ELSE IF Head(sorted).bbox[2] <= b.bbox[2]
         THEN <<Head(sorted)>> \o InsertByTop(b, Tail(sorted))
         ELSE <<b>> \o sorted

\* line 119 without the sort
SortByTop_Unsorted(blocks) == blocks

RECURSIVE SortByTop(_)
\* sorted(blocks, key=lambda b: b["bbox"][1])
SortByTop(blocks) ==
    IF blocks = <<>> THEN <<>>
    ELSE InsertByTop(blocks[Len(blocks)], SortByTop(SubSeq(blocks, 1, Len(blocks) - 1)))

\* line 123
IsTextMerge(cur, nxt) == cur.type \in {"text", "title"} /\ nxt.type \in {"text", "title"}

\* line 129 with only the same-type test
CanMerge_SameTypeOnly(cur, nxt) ==
    /\ nxt.bbox[2] - cur.bbox[4] < MergeGap
    /\ cur.type = nxt.type

\* line 129
CanMerge(cur, nxt) ==
    /\ nxt.bbox[2] - cur.bbox[4] < MergeGap
    /\ (IsTextMerge(cur, nxt) \/ cur.type = nxt.type)

\* lines 130-137 with the contents joined in the opposite order
MergeTwo_Swapped(cur, nxt) ==
    [cur EXCEPT !.bbox = <<Min(cur.bbox[1], nxt.bbox[1]), Min(cur.bbox[2], nxt.bbox[2]),
                           Max(cur.bbox[3], nxt.bbox[3]), Max(cur.bbox[4], nxt.bbox[4])>>,
                !.content = nxt.content \o <<"\n">> \o cur.content,
                !.type = IF IsTextMerge(cur, nxt) THEN "text" ELSE cur.type]

\* lines 130-137 without line 136: the next block's content is not added
MergeTwo_KeepCurrent(cur, nxt) ==
    [cur EXCEPT !.bbox = <<Min(cur.bbox[1], nxt.bbox[1]), Min(cur.bbox[2], nxt.bbox[2]),
                           Max(cur.bbox[3], nxt.bbox[3]), Max(cur.bbox[4], nxt.bbox[4])>>,
                !.type = IF IsTextMerge(cur, nxt) THEN "text" ELSE cur.type]

\* lines 130-137
MergeTwo(cur, nxt) ==
    [cur EXCEPT !.bbox = <<Min(cur.bbox[1], nxt.bbox[1]), Min(cur.bbox[2], nxt.bbox[2]),
                           Max(cur.bbox[3], nxt.bbox[3]), Max(cur.bbox[4], nxt.bbox[4])>>,
                !.content = cur.content \o <<"\n">> \o nxt.content,
                !.type = IF IsTextMerge(cur, nxt) THEN "text" ELSE cur.type]

RECURSIVE MergeWalk(_, _, _)
\* lines 122-141: the walk over sorted_blocks[1:]
MergeWalk(current, rest, out) ==
    IF rest = <<>> THEN Append(out, current)
    ELSE IF CanMerge(current, Head(rest))
         THEN MergeWalk(MergeTwo(current, Head(rest)), Tail(rest), out)
         ELSE MergeWalk(Head(rest), Tail(rest), Append(out, current))

\* merge_consecutive_blocks
merge_consecutive_blocks(blocks) ==
    IF blocks = <<>> THEN <<>>
    ELSE LET sorted_blocks == SortByTop(blocks)
         IN  MergeWalk(Head(sorted_blocks), Tail(sorted_blocks), <<>>)

\* line 155: the indices of the base blocks inside the table
ConsumedBy(t_bbox, base) ==
    {i \in 1..Len(base) : ScoreAbove(calculate_intersection(t_bbox, base[i].bbox), 1, 2)}

\* lines 150-160: the texts of the consumed base blocks, in list order, joined
TableText(t_bbox, base) ==
    LET inside == SelectSeq([i \in 1..Len(base) |-> i],
                            LAMBDA i : i \in ConsumedBy(t_bbox, base))
    IN  JoinLines([k \in 1..Len(inside) |-> base[inside[k]].text])

\* lines 149-167: one table block per detection
TableBlocks(base, tables) ==
    [k \in 1..Len(tables) |->
        LET full_table_text == TableText(tables[k].bbox, base)
        IN  Block("table", "extract_table_logic",
                  IF full_table_text # <<>> THEN full_table_text ELSE <<"[EMPTY_TABLE]">>,
                  tables[k].bbox)]

\* consumed_indices after the loop over the tables
ConsumedIndices(base, tables) ==
    UNION {ConsumedBy(tables[k].bbox, base) : k \in 1..Len(tables)}

\* lines 170-183 without the test on consumed_indices
RemainingBlocks_KeepConsumed(base, tables) ==
    [i \in 1..Len(base) |->
        Block(base[i].type,
              IF base[i].type = "image" THEN "crop_image" ELSE "extract_text",
              base[i].text, base[i].bbox)]

\* lines 170-183: the base blocks no table consumed
RemainingBlocks(base, tables) ==
    LET consumed_indices == ConsumedIndices(base, tables)
        left == SelectSeq([i \in 1..Len(base) |-> i],
                          LAMBDA i : i \notin consumed_indices)
    IN  [k \in 1..Len(left) |->
            Block(base[left[k]].type,
                  IF base[left[k]].type = "image" THEN "crop_image" ELSE "extract_text",
                  base[left[k]].text, base[left[k]].bbox)]

\* lines 187-190
IsIsolated(hw, finals) ==
    \A k \in 1..Len(finals) : ~ScoreAbove(calculate_iou(hw.bbox, finals[k].bbox), 1, 5)

\* lines 192-195
HwBlock(hw) == Block("handwriting_region", "send_to_ocr", <<"[HANDWRITING_IMAGE]">>, hw.bbox)

RECURSIVE Isolate(_, _, _)
\* lines 186-195: final_blocks grows while the detections are walked
Isolate(hws, finals, trace) ==
    IF hws = <<>> THEN [finals |-> finals, trace |-> trace]
    ELSE LET hw == Head(hws)
             keep == IsIsolated(hw, finals)
         IN  Isolate(Tail(hws),
                     IF keep THEN Append(finals, HwBlock(hw)) ELSE finals,
                     Append(trace, [bbox |-> hw.bbox, against |-> finals, isolated |-> keep]))

\* intelligent_merge lines 145-195: final_blocks before the closing merge
FinalBlocks(base, tables, hws) ==
    Isolate(hws, TableBlocks(base, tables) \o RemainingBlocks(base, tables), <<>>)

InitMerge ==
    /\ \E nb \in 0..MaxPageInputs :
          \E nt \in 0..(MaxPageInputs - nb) :
             \E nh \in 0..(MaxPageInputs - nb - nt) :
                /\ base_blocks \in [1..nb -> BaseCandidates]
                /\ table_blocks \in [1..nt -> TableCandidates]
                /\ hw_blocks \in [1..nh -> HwCandidates]
    /\ mpc = "start"
    /\ final_blocks = <<>>
    /\ hw_trace = <<>>
    /\ merged = <<>>
    /\ remerged = <<>>

\* no page in the merge engine
ParkedMerge ==
    /\ base_blocks = <<>>
    /\ table_blocks = <<>>
    /\ hw_blocks = <<>>
    /\ mpc = "again"
    /\ final_blocks = <<>>
    /\ hw_trace = <<>>
    /\ merged = <<>>
    /\ remerged = <<>>

\* analyze_single_page line 202: intelligent_merge on the page's detections
IntelligentMerge ==
    /\ mpc = "start"
    /\ LET walked == FinalBlocks(base_blocks, table_blocks, hw_blocks)
       IN  /\ final_blocks' = walked.finals
           /\ hw_trace' = walked.trace
           /\ merged' = merge_consecutive_blocks(walked.finals)
    /\ mpc' = "merged"
    /\ UNCHANGED <<base_blocks, table_blocks, hw_blocks, remerged>>
    /\ UNCHANGED notMerge

\* merge_consecutive_blocks applied to its own output
MergeAgain ==
    /\ mpc = "merged"
    /\ remerged' = merge_consecutive_blocks(merged)
    /\ mpc' = "again"
    /\ UNCHANGED <<base_blocks, table_blocks, hw_blocks, final_blocks, hw_trace, merged>>
    /\ UNCHANGED notMerge

NextMerge ==
    \/ IntelligentMerge
    \/ MergeAgain

(***************************************************************************)
(* chunking_engine.py: one pipeline output chunked twice                   *)
(***************************************************************************)
\* enriched blocks as node_enrich_content leaves them in rag_ready_data
ChunkBlocks ==
    {Block("text", "extract_text", <<"Hello">>, <<0, 0, 100, 20>>),
     Block("text", "extract_text", <<LongText>>, <<0, 25, 100, 45>>),
     Block("table", "local_table_reconstructed", <<"|a|b|">>, <<0, 0, 200, 200>>),
     Block("image", "vlm_described", <<"[IMAGE_DESCRIPTION]", "\n", "A cat">>,
           <<0, 190, 100, 230>>),
     Block("image", "vlm_described", <<"[IMAGE_DESCRIPTION]", "\n", "A dog">>,
           <<120, 0, 200, 20>>),
     Block("text", "extract_text", <<"Hi">>, <<0, 300, 100, 320>>)}

\* the segments of an audio transcription, times in hundredths of a second
SegCandidates ==
    {[start |-> 0, end |-> 150, text |-> <<"Hi">>],
     [start |-> 150, end |-> 350, text |-> <<LongText>>],
     [start |-> 350, end |-> 500, text |-> <<"there">>]}

\* rag_ready_data.json: up to two pages holding the document's blocks, or one
\* transcript record
ChunkInputs ==
    UNION {{PagesOf(x[1], x[2], cut) : cut \in Cuts(x[2], Len(x[1]))} :
              x \in SeqsUpTo(ChunkBlocks, MaxChunkBlocks) \X (0..2)}
    \cup {<<Transcript(src, segs)>> :
            src \in {"audio_transcription", "youtube_transcript"},
            segs \in SeqsUpTo(SegCandidates, MaxSegments)}

InitChunk ==
    /\ chunk_data \in ChunkInputs
    /\ chunk_file_id \in {"file1", "yt_id1"}
    /\ cpc = "start"
    /\ chunk_runs = 0
    /\ first_chunks = <<>>
    /\ rerun_chunks = <<>>

\* nothing being chunked
ParkedChunk ==
    /\ chunk_data = <<>>
    /\ chunk_file_id = "file1"
    /\ cpc = "rerun"
    /\ chunk_runs = 0
    /\ first_chunks = <<>>
    /\ rerun_chunks = <<>>

\* run_pipeline line 87: chunker.process_json(json_path, file_id)
ChunkFirst ==
    /\ cpc = "start"
    /\ first_chunks' = process_json(chunk_data, chunk_file_id)
    /\ chunk_runs' = chunk_runs + 1
    /\ cpc' = "first"
    /\ UNCHANGED <<chunk_data, chunk_file_id, rerun_chunks>>
    /\ UNCHANGED notChunk

\* the same file ingested again with the same pipeline output
ChunkRerun ==
    /\ cpc = "first"
    /\ rerun_chunks' = process_json(chunk_data, chunk_file_id)
    /\ chunk_runs' = chunk_runs + 1
    /\ cpc' = "rerun"
    /\ UNCHANGED <<chunk_data, chunk_file_id, first_chunks>>
    /\ UNCHANGED notChunk

NextChunk ==
    \/ ChunkFirst
    \/ ChunkRerun

(***************************************************************************)
(* worker_manager.py                                                       *)
(***************************************************************************)
\* the capabilities of worker_paths that the concurrent runs contend for
Capabilities == {"ocr", "audio"}
\* server.py: two background tasks running run_pipeline at the same time
Runs == {"run1", "run2"}
Pids == 1..MaxProcs
NoProc == 0

\* one line on a worker's stdin: a request of run t (its n-th call) or EXIT
ReqLine(t, n) == [kind |-> "req", t |-> t, n |-> n]
ExitLine == [kind |-> "EXIT", t |-> "", n |-> 0]
\* one line on a worker's stdout: json is FALSE when the line does not parse
RespLine(req, p, json) == [t |-> req.t, n |-> req.n, from |-> p, json |-> json]

\* what query() gives back
NoResult == [kind |-> "none", t |-> "", n |-> 0, from |-> NoProc]
Unavailable(p) == [kind |-> "None", t |-> "", n |-> 0, from |-> p]
Raised == [kind |-> "raised", t |-> "", n |-> 0, from |-> NoProc]
Value(line) == [kind |-> "value", t |-> line.t, n |-> line.n, from |-> line.from]

InitPool ==
    /\ workers = [c \in Capabilities |-> NoProc]
    /\ script_exists \in [Capabilities -> BOOLEAN]
    /\ nprocs = 0
    /\ alive = [p \in Pids |-> FALSE]
    /\ hung = [p \in Pids |-> FALSE]
    /\ stdin = [p \in Pids |-> <<>>]
    /\ stdout = [p \in Pids |-> <<>>]
    /\ torn = FALSE
    /\ pc = [t \in Runs |-> "idle"]
    /\ worker_name = [t \in Runs |-> "ocr"]
    /\ calls = [t \in Runs |-> 0]
    /\ process = [t \in Runs |-> NoProc]
    /\ result = [t \in Runs |-> NoResult]
    /\ saw_exited = [t \in Runs |-> FALSE]
    /\ spawned = [t \in Runs |-> 0]
    /\ fresh = [t \in Runs |-> NoProc]

\* no pool activity: nothing started, no run calling
ParkedPool ==
    /\ InitPool
    /\ script_exists = [c \in Capabilities |-> TRUE]

\* get_worker without the poll() test: any recorded process is handed out
WorkerUsable_NoPoll(name) == workers[name] # NoProc

\* get_worker line 19: name in self.workers and self.workers[name].poll() is None
WorkerUsable(name) == workers[name] # NoProc /\ alive[workers[name]]

\* the capability has a recorded process and that process has exited
HasExited(name) == workers[name] # NoProc /\ ~alive[workers[name]]

\* a run calls manager.query(worker_name, payload)
Invoke(t, c) ==
    /\ pc[t] \in {"idle", "returned", "raised"}
    /\ ~torn
    /\ calls["run1"] + calls["run2"] < MaxCalls
    /\ pc' = [pc EXCEPT ![t] = "get_worker"]
    /\ worker_name' = [worker_name EXCEPT ![t] = c]
    /\ calls' = [calls EXCEPT ![t] = @ + 1]
    /\ process' = [process EXCEPT ![t] = NoProc]
    /\ result' = [result EXCEPT ![t] = NoResult]
    /\ saw_exited' = [saw_exited EXCEPT ![t] = FALSE]
    /\ spawned' = [spawned EXCEPT ![t] = 0]
    /\ fresh' = [fresh EXCEPT ![t] = NoProc]
    /\ UNCHANGED <<workers, script_exists, nprocs, alive, hung, stdin, stdout, torn>>
    /\ UNCHANGED notPool

\* get_worker lines 19-20: reuse the recorded process when it is still running
GetWorkerCheck(t) ==
    /\ pc[t] = "get_worker"
    /\ IF WorkerUsable(worker_name[t])
       THEN /\ process' = [process EXCEPT ![t] = workers[worker_name[t]]]
            /\ pc' = [pc EXCEPT ![t] = "write"]
       ELSE /\ pc' = [pc EXCEPT ![t] = "start"]
            /\ UNCHANGED process
    /\ saw_exited' = [saw_exited EXCEPT ![t] = HasExited(worker_name[t])]
    /\ UNCHANGED <<workers, script_exists, nprocs, alive, hung, stdin, stdout, torn,
                   worker_name, calls, result, spawned, fresh>>
    /\ UNCHANGED notPool

\* get_worker lines 22-38: raise when the script is missing, else Popen and record it
GetWorkerStart(t) ==
    /\ pc[t] = "start"
    /\ IF ~script_exists[worker_name[t]]
       THEN /\ pc' = [pc EXCEPT ![t] = "raised"]
            /\ result' = [result EXCEPT ![t] = Raised]
            /\ UNCHANGED <<workers, nprocs, alive, process, spawned, fresh>>
       ELSE /\ nprocs < MaxProcs
            /\ nprocs' = nprocs + 1
            /\ alive' = [alive EXCEPT ![nprocs + 1] = TRUE]
            /\ workers' = [workers EXCEPT ![worker_name[t]] = nprocs + 1]
            /\ process' = [process EXCEPT ![t] = nprocs + 1]
            /\ fresh' = [fresh EXCEPT ![t] = nprocs + 1]
            /\ spawned' = [spawned EXCEPT ![t] = @ + 1]
            /\ pc' = [pc EXCEPT ![t] = "write"]
            /\ UNCHANGED result
    /\ UNCHANGED <<script_exists, hung, stdin, stdout, torn, worker_name, calls, saw_exited>>
    /\ UNCHANGED notPool

\* query lines 44-46 (and 49-51): write the request line; a closed pipe is caught
QueryWrite(t) ==
    /\ pc[t] = "write"
    /\ IF alive[process[t]]
       THEN /\ stdin' = [stdin EXCEPT ![process[t]] = Append(@, ReqLine(t, calls[t]))]
            /\ pc' = [pc EXCEPT ![t] = "read"]
            /\ UNCHANGED result
       ELSE /\ result' = [result EXCEPT ![t] = Unavailable(process[t])]
            /\ pc' = [pc EXCEPT ![t] = "returned"]
            /\ UNCHANGED stdin
    /\ UNCHANGED <<workers, script_exists, nprocs, alive, hung, stdout, torn,
                   worker_name, calls, process, saw_exited, spawned, fresh>>
    /\ UNCHANGED notPool

\* query line 48: json.loads(response) if response else None, a parse error caught
ParseResponse(line) == IF line.json THEN Value(line) ELSE Unavailable(line.from)

\* query lines 47-51: readline blocks until a line or end of file
QueryRead(t) ==
    /\ pc[t] = "read"
    /\ IF stdout[process[t]] # <<>>
       THEN /\ result' = [result EXCEPT ![t] = ParseResponse(Head(stdout[process[t]]))]
            /\ stdout' = [stdout EXCEPT ![process[t]] = Tail(@)]
       ELSE /\ ~alive[process[t]]
            /\ result' = [result EXCEPT ![t] = Unavailable(process[t])]
            /\ UNCHANGED stdout
    /\ pc' = [pc EXCEPT ![t] = "returned"]
    /\ UNCHANGED <<workers, script_exists, nprocs, alive, hung, stdin, torn,
                   worker_name, calls, process, saw_exited, spawned, fresh>>
    /\ UNCHANGED notPool

\* workers/*.py main loop: EXIT ends the process, any other line gets one answer
WorkerServe(p) ==
    /\ alive[p] /\ ~hung[p]
    /\ stdin[p] # <<>>
    /\ IF Head(stdin[p]).kind = "EXIT"
       THEN /\ alive' = [alive EXCEPT ![p] = FALSE]
            /\ stdin' = [stdin EXCEPT ![p] = <<>>]
            /\ UNCHANGED stdout
       ELSE /\ \E json \in BOOLEAN :
                 stdout' = [stdout EXCEPT ![p] = Append(@, RespLine(Head(stdin[p]), p, json))]
            /\ stdin' = [stdin EXCEPT ![p] = Tail(@)]
            /\ UNCHANGED alive
    /\ UNCHANGED <<workers, script_exists, nprocs, hung, torn,
                   pc, worker_name, calls, process, result, saw_exited, spawned, fresh>>
    /\ UNCHANGED notPool

\* a worker process dies on its own (model load failure, crash, kill)
WorkerExits(p) ==
    /\ alive[p]
    /\ alive' = [alive EXCEPT ![p] = FALSE]
    /\ hung' = [hung EXCEPT ![p] = FALSE]
    /\ stdin' = [stdin EXCEPT ![p] = <<>>]
    /\ UNCHANGED <<workers, script_exists, nprocs, stdout, torn,
                   pc, worker_name, calls, process, result, saw_exited, spawned, fresh>>
    /\ UNCHANGED notPool

\* a worker stops reading its stdin (a model call that never returns)
WorkerHangs(p) ==
    /\ alive[p] /\ ~hung[p]
    /\ hung' = [hung EXCEPT ![p] = TRUE]
    /\ UNCHANGED <<workers, script_exists, nprocs, alive, stdin, stdout, torn,
                   pc, worker_name, calls, process, result, saw_exited, spawned, fresh>>
    /\ UNCHANGED notPool

\* stop_all line 55-60: what the loop body does to one recorded process
StopOne(p, in) == IF p # NoProc /\ alive[p] THEN Append(in, ExitLine) ELSE in

\* stop_all: EXIT to every recorded running process, then workers.clear()
StopAll ==
    /\ ~torn
    /\ \A t \in Runs : pc[t] \in {"idle", "returned", "raised"}
    /\ stdin' = [p \in Pids |->
                    IF \E c \in Capabilities : workers[c] = p
                    THEN StopOne(p, stdin[p]) ELSE stdin[p]]
    /\ workers' = [c \in Capabilities |-> NoProc]
    /\ torn' = TRUE
    /\ UNCHANGED <<script_exists, nprocs, alive, hung, stdout,
                   pc, worker_name, calls, process, result, saw_exited, spawned, fresh>>
    /\ UNCHANGED notPool

NextPool ==
    \/ \E t \in Runs, c \in Capabilities : Invoke(t, c)
    \/ \E t \in Runs : GetWorkerCheck(t)
    \/ \E t \in Runs : GetWorkerStart(t)
    \/ \E t \in Runs : QueryWrite(t)
    \/ \E t \in Runs : QueryRead(t)
    \/ \E p \in Pids : WorkerServe(p)
    \/ \E p \in Pids : WorkerExits(p)
    \/ \E p \in Pids : WorkerHangs(p)
    \/ StopAll


(***************************************************************************)
(* workers/*.py: the main loops                                            *)
(***************************************************************************)
WorkerScripts == {"ocr_worker.py", "post_ocr_worker.py", "audio_worker.py"}

\* a bare path, a JSON list, an empty line, a blank line, EXIT, EXIT after a
\* blank; the newline that ends the line is left out
PathLine == <<"a", ".", "jpg">>
JsonLine == <<"[]">>
InputLines == {PathLine, JsonLine, <<>>, <<" ">>, <<"EXIT">>, <<" ", "EXIT">>}

\* json.loads(input_data) raises JSONDecodeError (post_ocr_worker.py line 89)
NotJson(input_data) == input_data # JsonLine

\* whether one pass of the loop prints a line: ocr_worker.py lines 63-67 and
\* audio_worker.py lines 81-83 always do, post_ocr_worker.py lines 88-94 only
\* when the line parses
Responds(s, input_data) == s # "post_ocr_worker.py" \/ ~NotJson(input_data)

\* json.dumps(...) of the worker's result, one line
ResponseTo(input_data) == <<"json", input_data>>

InitWorker ==
    /\ script \in WorkerScripts
    /\ wstdin \in UNION {[1..k -> InputLines] : k \in 0..MaxLines}
    /\ wstdout = <<>>
    /\ consumed = 0
    /\ running = TRUE

\* no worker process
ParkedWorker ==
    /\ script = "ocr_worker.py"
    /\ wstdin = <<>>
    /\ wstdout = <<>>
    /\ consumed = 0
    /\ running = FALSE

\* one pass of `for line in sys.stdin:` (ocr_worker.py 56-67,
\* post_ocr_worker.py 83-94, audio_worker.py 76-83)
WorkerLoop ==
    /\ running /\ wstdin # <<>>
    /\ wstdin' = Tail(wstdin)
    /\ LET input_data == Strip(Head(wstdin))
       IN  IF input_data = <<>>
           THEN UNCHANGED <<wstdout, running>>
           ELSE IF input_data = <<"EXIT">>
           THEN /\ running' = FALSE
                /\ UNCHANGED wstdout
           ELSE /\ wstdout' = IF Responds(script, input_data)
                              THEN Append(wstdout, ResponseTo(input_data))
                              ELSE wstdout
                /\ UNCHANGED running
    /\ consumed' = IF Head(wstdin) = <<"EXIT">> THEN consumed ELSE consumed + 1
    /\ UNCHANGED script
    /\ UNCHANGED notWorker

NextWorker == WorkerLoop

(***************************************************************************)
(* server.py, vector_store.py: one file ingested again                     *)
(***************************************************************************)
\* rag_ready_data of the earlier ingestion whose chunks the collection holds
OldOutput ==
    <<[page |-> 1,
       blocks |-> <<Block("text", "extract_text", <<"Hello">>, <<0, 0, 100, 20>>),
                    Block("image", "vlm_described",
                          <<"[IMAGE_DESCRIPTION]", "\n", "A cat">>, <<0, 190, 100, 230>>)>>]>>

\* rag_ready_data of a new run of the same file: nothing, an edited text, a
\* text with a long paragraph, a text next to a picture
NewOutputs ==
    {<<>>,
     <<[page |-> 1,
        blocks |-> <<Block("text", "extract_text", <<"Hello", " ", "again">>,
                           <<0, 0, 100, 20>>)>>]>>,
     <<[page |-> 1,
        blocks |-> <<Block("text", "extract_text", <<"Hello">>, <<0, 0, 100, 20>>),
                     Block("text", "extract_text", <<LongText>>, <<0, 25, 100, 45>>)>>]>>,
     <<[page |-> 1,
        blocks |-> <<Block("text", "extract_text", <<"Hello">>, <<0, 0, 100, 20>>),
                     Block("image", "vlm_described",
                           <<"[IMAGE_DESCRIPTION]", "\n", "A dog">>, <<120, 0, 200, 20>>)>>]>>}

\* a chunk of another file in the same collection
OtherFileChunk == Chunk(ChunkId("file2", "p", 1, 0, 0), <<"Other">>, "text")

AsSet(cs) == {cs[k] : k \in 1..Len(cs)}

\* the chunks the earlier ingestion stored
OldChunks == AsSet(process_json(OldOutput, RunFileId))

RECURSIVE Upsert(_, _)
\* collection.upsert(ids=..., documents=..., ...): an entry replaces the one
\* stored under its id
Upsert(coll, cs) ==
    IF cs = <<>> THEN coll
    ELSE Upsert({c \in coll : c.id # Head(cs).id} \cup {Head(cs)}, Tail(cs))

\* no id twice in the ids of one upsert call
UniqueIds(cs) == \A k, l \in 1..Len(cs) : k # l => cs[k].id # cs[l].id

InitStore ==
    /\ collection = OldChunks \cup {OtherFileChunk}
    /\ spc = [r \in Runs |-> "invoke"]
    /\ run_chunks = [r \in Runs |-> <<>>]
    /\ inserted = <<>>

\* no ingestion
ParkedStore ==
    /\ collection = {}
    /\ spc = [r \in Runs |-> "done"]
    /\ run_chunks = [r \in Runs |-> <<>>]
    /\ inserted = <<>>

\* run_pipeline lines 62-93 up to the test of chunks: the graph ran, its
\* output was saved and chunked; a failed run, an exception or an empty chunk
\* list ends the task
PipelineChunks(r) ==
    /\ spc[r] = "invoke"
    /\ \/ \E data \in NewOutputs :
             /\ run_chunks' = [run_chunks EXCEPT ![r] = process_json(data, RunFileId)]
             /\ spc' = [spc EXCEPT ![r] = IF process_json(data, RunFileId) = <<>>
                                          THEN "done" ELSE "chunked"]
       \/ /\ spc' = [spc EXCEPT ![r] = "done"]
          /\ UNCHANGED run_chunks
    /\ UNCHANGED <<collection, inserted>>
    /\ UNCHANGED notStore

\* VectorDB.delete_file (run_pipeline line 89): collection.delete by file_id;
\* an exception of the delete is printed and swallowed
DeleteFile(r) ==
    /\ spc[r] = "chunked"
    /\ \E deleted \in BOOLEAN :
          collection' = IF deleted
                        THEN {c \in collection : c.id.file_id # RunFileId}
                        ELSE collection
    /\ spc' = [spc EXCEPT ![r] = "deleted"]
    /\ UNCHANGED <<run_chunks, inserted>>
    /\ UNCHANGED notStore

\* VectorDB.add_chunks (run_pipeline line 90): nothing is stored when the
\* embedding fails (lines 67-71); collection.upsert given an id twice either
\* keeps the later entry or raises, which run_pipeline line 95 catches
AddChunks(r) ==
    /\ spc[r] = "deleted"
    /\ \E embedded \in BOOLEAN, upsert_raises \in BOOLEAN :
          IF embedded /\ (UniqueIds(run_chunks[r]) \/ ~upsert_raises)
          THEN /\ collection' = Upsert(collection, run_chunks[r])
               /\ inserted' = Append(inserted, r)
          ELSE UNCHANGED <<collection, inserted>>
    /\ spc' = [spc EXCEPT ![r] = "done"]
    /\ UNCHANGED run_chunks
    /\ UNCHANGED notStore

NextStore ==
    \/ \E r \in Runs : PipelineChunks(r)
    \/ \E r \in Runs : DeleteFile(r)
    \/ \E r \in Runs : AddChunks(r)

(***************************************************************************)
(* Specifications                                                          *)
(***************************************************************************)
\* the worker pool under two concurrent pipeline runs
PoolInit == InitPool /\ ParkedRun /\ ParkedGeo /\ ParkedMerge /\ ParkedChunk /\ ParkedBlock /\ ParkedClean /\ ParkedWorker /\ ParkedStore
SpecPool == PoolInit /\ [][NextPool]_vars

\* the steps inside one query() call of run t
QuerySteps(t) == GetWorkerCheck(t) \/ GetWorkerStart(t) \/ QueryWrite(t) \/ QueryRead(t)
\* a thread inside query() keeps running and a worker that is not stuck keeps
\* reading its stdin; nothing makes a stuck worker answer, exit or be killed
PoolFairness ==
    /\ \A t \in Runs : WF_vars(QuerySteps(t))
    /\ \A p \in Pids : WF_vars(WorkerServe(p))
SpecPoolFair == PoolInit /\ [][NextPool]_vars /\ PoolFairness

\* one run of the workflow graph
RunInit == InitRun /\ ParkedPool /\ ParkedGeo /\ ParkedMerge /\ ParkedChunk /\ ParkedBlock /\ ParkedClean /\ ParkedWorker /\ ParkedStore
SpecRun == RunInit /\ [][NextRun]_vars

\* the overlap scores of one pair of boxes
GeoInit == InitGeo /\ ParkedPool /\ ParkedRun /\ ParkedMerge /\ ParkedChunk /\ ParkedBlock /\ ParkedClean /\ ParkedWorker /\ ParkedStore
SpecGeo == GeoInit /\ [][NextGeo]_vars

\* one page through the merge engine
MergeInit == InitMerge /\ ParkedPool /\ ParkedRun /\ ParkedGeo /\ ParkedChunk /\ ParkedBlock /\ ParkedClean /\ ParkedWorker /\ ParkedStore
SpecMerge == MergeInit /\ [][NextMerge]_vars

\* one pipeline output chunked, then chunked again
ChunkInit == InitChunk /\ ParkedPool /\ ParkedRun /\ ParkedGeo /\ ParkedMerge /\ ParkedBlock /\ ParkedClean /\ ParkedWorker /\ ParkedStore
SpecChunk == ChunkInit /\ [][NextChunk]_vars
BlockInit == InitBlock /\ ParkedPool /\ ParkedRun /\ ParkedGeo /\ ParkedMerge /\ ParkedChunk /\ ParkedClean /\ ParkedWorker /\ ParkedStore
SpecBlock == BlockInit /\ [][NextBlock]_vars
CleanInit ==
    /\ InitClean /\ ParkedPool /\ ParkedRun /\ ParkedGeo /\ ParkedMerge /\ ParkedChunk
    /\ ParkedBlock /\ ParkedWorker /\ ParkedStore
SpecClean == CleanInit /\ [][NextClean]_vars
WorkerInit ==
    /\ InitWorker /\ ParkedPool /\ ParkedRun /\ ParkedGeo /\ ParkedMerge /\ ParkedChunk
    /\ ParkedBlock /\ ParkedClean /\ ParkedStore
SpecWorker == WorkerInit /\ [][NextWorker]_vars

\* two run_pipeline tasks for a file whose chunks are already stored
StoreInit == InitStore /\ ParkedPool /\ ParkedRun /\ ParkedGeo /\ ParkedMerge /\ ParkedChunk /\ ParkedBlock /\ ParkedClean /\ ParkedWorker
SpecStore == StoreInit /\ [][NextStore]_vars

(***************************************************************************)
(* Worker pool claims                                                      *)
(***************************************************************************)
\* the runs with a request written to p and its response not yet read
InFlight(p) == {t \in Runs : pc[t] = "read" /\ process[t] = p}

\* C1: on every worker channel requests and responses strictly alternate: at
\* most one request is in flight per worker, and the value a query() returns is
\* the worker's answer to the request line that same query() wrote.
C1_StrictAlternation ==
    /\ \A p \in Pids : Cardinality(InFlight(p)) <= 1
    /\ \A t \in Runs :
          pc[t] = "returned" /\ result[t].kind = "value"
             => result[t].t = t /\ result[t].n = calls[t]

\* C2: query() never raises to its caller; a worker that cannot be started,
\* is not running, or answers nothing or a malformed line gives None.
C2_NeverRaises == \A t \in Runs : pc[t] # "raised"

\* C3: when the recorded process of a capability has exited, the next query()
\* starts exactly one new process, writes its request to that process and
\* returns what that process answered; it does not raise, and it gives None
\* only when the new process itself failed to answer.
C3_RestartOnce ==
    \A t \in Runs :
       saw_exited[t] =>
          /\ pc[t] # "raised"
          /\ pc[t] \in {"write", "read", "returned"} =>
                /\ spawned[t] = 1
                /\ fresh[t] # NoProc
                /\ process[t] = fresh[t]
          /\ pc[t] = "returned" => result[t].from = fresh[t]

\* C3 happens: a run found the process exited and got a value from the new one
C3_Witness ==
    \E t \in Runs :
       /\ saw_exited[t]
       /\ pc[t] = "returned"
       /\ result[t].kind = "value"
       /\ result[t].from = fresh[t]
       /\ result[t].t = t /\ result[t].n = calls[t]

\* C4: after pool teardown no worker process the pool started is still
\* running, also a worker that never reads EXIT.
C4_NoWorkerLeftRunning == torn => \A p \in Pids : ~alive[p]

(***************************************************************************)
(* Pipeline state machine claims                                           *)
(***************************************************************************)
\* the run is over: the graph reached END or invoke() ended by an exception
RunOver == node \in {"END", "EXC"}

\* node_analyze_layout took its except branch
LayoutRaised == Has(trail, "analyze_layout") /\ "layout_results" \notin keys

\* C5: when layout analysis raises, the run ends with status=failed and an
\* error string; failed is terminal, so the enrichment stage is never entered
\* afterwards and the run does not end by an uncaught exception.
C5_FailedLayoutIsTerminal ==
    LayoutRaised =>
        /\ status = "failed"
        /\ "error" \in keys
        /\ ~Has(trail, "enrich_content")
        /\ node # "EXC"

\* C6: once layout analysis has succeeded, the enrichment stage visits every
\* remaining block of every page and the run reaches status=completed,
\* whatever the worker calls return or raise.
C6_EnrichVisitsAllAndCompletes ==
    ("layout_results" \in keys /\ RunOver) =>
        /\ node = "END"
        /\ status = "completed"
        /\ \A i \in 1..Len(layout_results) :
              \A j \in 1..Len(Clean(layout_results[i].blocks)) : <<i, j>> \in visited

\* C7: after the enrichment stage every block of the run's output has
\* non-empty content.
C7_OutputContentNonEmpty ==
    (Has(trail, "enrich_content") /\ node = "END" /\ status = "completed") =>
        \A i \in 1..Len(rag_ready_data) :
           \A j \in 1..Len(rag_ready_data[i].blocks) :
              rag_ready_data[i].blocks[j].content # <<>>

\* the identifiers that match the streaming-transcript URL pattern, and those
\* with a recognized audio or video extension
StreamSources == {WatchUrl, ShortUrl, PlaylistUrl, YoutubeNamedVideo}
MediaSources == {AudioFile, VideoFile}
ExpectedType(path) ==
    IF path \in StreamSources THEN "youtube"
    ELSE IF path \in MediaSources THEN "media" ELSE "document"
ExpectedNode(path) ==
    IF path \in StreamSources THEN "process_youtube"
    ELSE IF path \in MediaSources THEN "process_media" ELSE "analyze_layout"

\* C8: routing is a function of the source identifier alone: the stream URL
\* pattern routes to the stream path, otherwise a recognized audio/video
\* extension to the media path, otherwise the document path; the router sets
\* status=routed.
C8_RoutingBySource ==
    Has(trail, "router") =>
        /\ file_type = ExpectedType(file_path)
        /\ Len(trail) = 1 => (status = "routed" /\ node = ExpectedNode(file_path))
        /\ Len(trail) >= 2 => trail[2] = ExpectedNode(file_path)

\* C8 happens: an upper-case video extension was routed to the media path
C8_Witness ==
    /\ file_path = VideoFile
    /\ trail = <<"router">>
    /\ file_type = "media"
    /\ status = "routed"
    /\ node = "process_media"

(***************************************************************************)
(* Overlap score claims                                                    *)
(***************************************************************************)
\* n1/d1 == n2/d2
SameScore(s1, s2) == s1[2] # 0 /\ s2[2] # 0 /\ s1[1] * s2[2] = s2[1] * s1[2]
\* n/d == 1.0
IsOne(s) == s[2] # 0 /\ s[1] = s[2]
\* n/d == 0
IsZero(s) == s[2] # 0 /\ s[1] = 0
\* 0 <= n/d <= 1
InUnit(s) ==
    /\ s[2] # 0
    /\ s[2] > 0 => (0 <= s[1] /\ s[1] <= s[2])
    /\ s[2] < 0 => (s[1] <= 0 /\ s[1] >= s[2])

\* positive width and height
Proper(box) == box[1] < box[3] /\ box[2] < box[4]
\* the boxes share no interior point
NonOverlapping(a, b) == a[3] <= b[1] \/ b[3] <= a[1] \/ a[4] <= b[2] \/ b[4] <= a[2]
\* b lies within a
Inside(b, a) == a[1] <= b[1] /\ a[2] <= b[2] /\ b[3] <= a[3] /\ b[4] <= a[4]

\* C9 as stated: for all boxes A, B: IoU(A,B) == IoU(B,A); IoU(A,A) == 1.0;
\* IoU of non-overlapping boxes == 0.
C9_IoUAllBoxes ==
    gpc # "start" =>
        /\ SameScore(iou_ab, iou_ba)
        /\ IsOne(iou_aa)
        /\ NonOverlapping(boxA, boxB) => IsZero(iou_ab)

\* C9 amended: IoU(A,B) == IoU(B,A) for all boxes; IoU(A,A) == 1.0 for every
\* box of positive width and height and 0 for any other box; IoU of
\* non-overlapping boxes == 0.
C9_IoUProperBoxes ==
    gpc # "start" =>
        /\ SameScore(iou_ab, iou_ba)
        /\ Proper(boxA) => IsOne(iou_aa)
        /\ ~Proper(boxA) => IsZero(iou_aa)
        /\ NonOverlapping(boxA, boxB) => IsZero(iou_ab)

\* C9 happens: two partly overlapping boxes were scored in both orders
C9_Witness ==
    /\ gpc # "start"
    /\ Proper(boxA) /\ Proper(boxB)
    /\ InterArea(boxA, boxB) > 0
    /\ ~Inside(boxB, boxA) /\ ~Inside(boxA, boxB)
    /\ SameScore(iou_ab, iou_ba)
    /\ ~IsZero(iou_ab) /\ ~IsOne(iou_ab)
    /\ IsOne(iou_aa)

\* C10 as stated: for all boxes A, B: containment(A,B) lies in [0,1];
\* containment(A,A) == 1.0; if B is fully inside A, containment(A,B) == 1.0;
\* a zero denominator yields 0 and never an error.
C10_ContainmentAllBoxes ==
    gpc = "done" =>
        /\ InUnit(cont_ab)
        /\ IsOne(cont_aa)
        /\ Inside(boxB, boxA) => IsOne(cont_ab)
        /\ BoxArea(boxB) = 0 => IsZero(cont_ab)

\* C10 amended: containment(A,B) lies in [0,1] for all boxes; containment(A,A)
\* == 1.0 for every box A of positive width and height; if B has positive
\* width and height and is fully inside A, containment(A,B) == 1.0 regardless
\* of A's size; a zero denominator (B of zero area) yields 0, never an error.
C10_ContainmentProperBoxes ==
    gpc = "done" =>
        /\ InUnit(cont_ab)
        /\ Proper(boxA) => IsOne(cont_aa)
        /\ (Proper(boxB) /\ Inside(boxB, boxA)) => IsOne(cont_ab)
        /\ BoxArea(boxB) = 0 => IsZero(cont_ab)

\* C10 happens: a small box fully inside a larger one scored 1.0
C10_Witness ==
    /\ gpc = "done"
    /\ Proper(boxB) /\ Inside(boxB, boxA)
    /\ BoxArea(boxA) > BoxArea(boxB)
    /\ IsOne(cont_ab)

(***************************************************************************)
(* Merge engine claims                                                     *)
(***************************************************************************)
\* text occurs in content as a contiguous run
Contains(content, text) ==
    \E k \in 0..(Len(content) - Len(text)) : SubSeq(content, k + 1, k + Len(text)) = text

\* intersection over union: intersection / (area(a) + area(b) - intersection),
\* 0 if either area is 0
StandardIoU(a, b) ==
    IF BoxArea(a) = 0 \/ BoxArea(b) = 0 THEN ZeroScore
    ELSE <<InterArea(a, b), BoxArea(a) + BoxArea(b) - InterArea(a, b)>>

\* score < n/d for a score with a positive denominator
ScoreBelow(s, n, d) == s[1] * d < n * s[2]

\* C11: merge_consecutive_blocks is idempotent: applied to its own output it
\* returns the same list of blocks (count, order, types, bboxes, contents).
C11_MergeIdempotent == mpc = "again" => remerged = merged

\* C11 happens: the first pass merged some blocks and kept several apart
C11_Witness ==
    /\ mpc = "again"
    /\ Len(merged) >= 2
    /\ Len(merged) < Len(final_blocks)
    /\ \E j \in 1..Len(merged) : merged[j].type = "text" /\ Has(merged[j].content, "\n")
    /\ remerged = merged

\* C12: every table detection with no base block of containment above 0.5
\* yields exactly one table block whose content is exactly [EMPTY_TABLE], for
\* any number and placement of table detections.
C12_EmptyTableYieldsOne ==
    mpc # "start" =>
        Cardinality({j \in 1..Len(merged) :
                        merged[j].type = "table" /\ merged[j].content = <<"[EMPTY_TABLE]">>})
        = Cardinality({k \in 1..Len(table_blocks) :
                        ConsumedBy(table_blocks[k].bbox, base_blocks) = {}})

\* C13: a handwriting detection whose IoU with some already emitted final
\* block is above 0.2 produces no handwriting_region block; one whose IoU with
\* every already emitted final block is below 0.2 produces one, with action
\* send_to_ocr.
C13_HandwritingIsolation ==
    mpc # "start" =>
        \A k \in 1..Len(hw_trace) :
            /\ (\E j \in 1..Len(hw_trace[k].against) :
                    ScoreAbove(StandardIoU(hw_trace[k].bbox, hw_trace[k].against[j].bbox), 1, 5))
                  => ~hw_trace[k].isolated
            /\ (\A j \in 1..Len(hw_trace[k].against) :
                    ScoreBelow(StandardIoU(hw_trace[k].bbox, hw_trace[k].against[j].bbox), 1, 5))
                  => /\ hw_trace[k].isolated
                     /\ \E j \in 1..Len(final_blocks) :
                           /\ final_blocks[j].type = "handwriting_region"
                           /\ final_blocks[j].action = "send_to_ocr"
                           /\ final_blocks[j].bbox = hw_trace[k].bbox

\* the upper and the lower of a page's two base blocks
UpperBase == IF base_blocks[1].bbox[2] <= base_blocks[2].bbox[2]
             THEN base_blocks[1] ELSE base_blocks[2]
LowerBase == IF base_blocks[1].bbox[2] <= base_blocks[2].bbox[2]
             THEN base_blocks[2] ELSE base_blocks[1]
\* a page of two text-like base blocks closer than the threshold, no detections
TwoCloseTextBlocks ==
    /\ table_blocks = <<>> /\ hw_blocks = <<>>
    /\ Len(base_blocks) = 2
    /\ \A i \in 1..2 : base_blocks[i].type \in {"text", "title"}
    /\ LowerBase.bbox[2] - UpperBase.bbox[4] < 50

\* C14: with no table or handwriting detections, two text-like base blocks
\* whose vertical gap (next top minus current bottom) is under the threshold
\* are merged into a single text block: bbox the union of both, content the
\* upper block's text, a line break, the lower block's text.
C14_CloseTextBlocksMerge ==
    (mpc # "start" /\ TwoCloseTextBlocks) =>
        /\ Len(merged) = 1
        /\ merged[1].type = "text"
        /\ merged[1].bbox = <<Min(UpperBase.bbox[1], LowerBase.bbox[1]),
                              Min(UpperBase.bbox[2], LowerBase.bbox[2]),
                              Max(UpperBase.bbox[3], LowerBase.bbox[3]),
                              Max(UpperBase.bbox[4], LowerBase.bbox[4])>>
        /\ merged[1].content = UpperBase.text \o <<"\n">> \o LowerBase.text

\* C14 happens: the blocks [0,0,100,20] "Hello" and [10,25,50,45] "Q1 Revenue",
\* given lower block first, came out as one text block over [0,0,100,45]
C14_Witness ==
    /\ mpc # "start"
    /\ TwoCloseTextBlocks
    /\ base_blocks[1].text = <<"Q1", " ", "Revenue">> /\ base_blocks[2].text = <<"Hello">>
    /\ Len(merged) = 1
    /\ merged[1].type = "text"
    /\ merged[1].bbox = <<0, 0, 100, 45>>
    /\ merged[1].content = <<"Hello", "\n", "Q1", " ", "Revenue">>

\* C15: a base block whose containment in a table detection exceeds 0.5 is
\* consumed by that table: the output holds a table block with action
\* extract_table_logic whose content includes the block's text, and the block
\* is not also emitted as a standalone block.
C15_ConsumedByTable ==
    mpc # "start" =>
        \A i \in 1..Len(base_blocks) :
            (\E k \in 1..Len(table_blocks) :
                 ScoreAbove(calculate_intersection(table_blocks[k].bbox, base_blocks[i].bbox), 1, 2))
            => /\ \E j \in 1..Len(merged) :
                     /\ merged[j].type = "table"
                     /\ merged[j].action = "extract_table_logic"
                     /\ Contains(merged[j].content, base_blocks[i].text)
               /\ \A j \in 1..Len(merged) :
                     merged[j].type # "table" =>
                         ~Contains(merged[j].content, base_blocks[i].text)

\* C15 happens: the table [0,0,200,200] consumed the block "Q1 Revenue" while
\* another block stayed standalone
C15_Witness ==
    /\ mpc # "start"
    /\ Len(table_blocks) = 1 /\ table_blocks[1].bbox = <<0, 0, 200, 200>>
    /\ Len(base_blocks) = 2
    /\ base_blocks[1].text = <<"Q1", " ", "Revenue">>
    /\ base_blocks[2].text = <<"Far">>
    /\ Len(merged) = 2
    /\ merged[1] = Block("table", "extract_table_logic", <<"Q1", " ", "Revenue">>,
                         <<0, 0, 200, 200>>)
    /\ merged[2].type = "text" /\ merged[2].content = <<"Far">>

RECURSIVE JoinedContent(_)
\* the contents of a run of blocks, a line break between each two
JoinedContent(g) ==
    IF Len(g) = 1 THEN g[1].content
    ELSE JoinedContent(SubSeq(g, 1, Len(g) - 1)) \o <<"\n">> \o g[Len(g)].content

TypesOf(g) == {g[i].type : i \in 1..Len(g)}

\* the block o may stand for the run g: a run holding a table or a
\* handwriting block is of one type; o has the run's type, or text when the
\* run mixes text and title
TypeKept(g, o) ==
    /\ (TypesOf(g) \cap {"table", "handwriting", "handwriting_region"} # {})
          => Cardinality(TypesOf(g)) = 1
    /\ IF Cardinality(TypesOf(g)) = 1 THEN o.type = g[1].type
       ELSE IF TypesOf(g) = {"text", "title"} THEN o.type = "text"
       ELSE o.type \in TypesOf(g)

RECURSIVE MergedByType(_, _)
\* out splits the top-ordered blocks into runs, one block per run with the
\* run's joined content, and every run keeps its type
MergedByType(sorted, out) ==
    IF out = <<>> THEN sorted = <<>>
    ELSE \E k \in 1..Len(sorted) :
            /\ Head(out).content = JoinedContent(SubSeq(sorted, 1, k))
            /\ TypeKept(SubSeq(sorted, 1, k), Head(out))
            /\ MergedByType(SubSeq(sorted, k + 1, Len(sorted)), Tail(out))

\* C26: mergeConsecutive never merges a table or handwriting block with a
\* block of another type, and a merge never changes a block's type except
\* that a text block merged with a title block yields text.
C26_MergeKeepsTypes ==
    mpc # "start" => MergedByType(SortByTop(final_blocks), merged)

\* C27: the blocks the merge engine returns for a page are ordered top to
\* bottom, also after merges: no block's top edge is above that of the block
\* before it.
C27_TopToBottom ==
    mpc # "start" =>
        \A i \in 1..(Len(merged) - 1) : merged[i].bbox[2] <= merged[i + 1].bbox[2]

\* C27 happens: blocks handed over out of order, some merged, and at least
\* two blocks with different tops returned
C27_Witness ==
    /\ mpc # "start"
    /\ \E i \in 1..(Len(final_blocks) - 1) :
          final_blocks[i].bbox[2] > final_blocks[i + 1].bbox[2]
    /\ Len(merged) < Len(final_blocks)
    /\ Len(merged) >= 2
    /\ merged[1].bbox[2] < merged[2].bbox[2]

(***************************************************************************)
(* Media path, chunking and behaviour claims                               *)
(***************************************************************************)
\* the run's source has a recognized video extension and took the media path
VideoRun ==
    /\ ExtIn(Lower(SplitExt(file_path)), SUPPORTED_VIDEO)
    /\ trail = <<"router", "process_media">>

\* C16: for a video source the run goes router, media path, audio extraction
\* and one transcription call; when it completes, rag_ready_data holds one
\* audio_transcription record; whenever the media path finishes (completed or
\* failed) the temporary audio file no longer exists.
C16_VideoRunCleansUp ==
    (VideoRun /\ node = "END") =>
        /\ status \in {"completed", "failed"}
        /\ status = "completed" =>
              /\ Len(rag_ready_data) = 1
              /\ rag_ready_data[1].source = "audio_transcription"
        /\ ~temp_audio

\* C17: when the transcription worker returns an object carrying an error, or
\* no result, the run ends with status=failed and the error recorded, and
\* nothing is saved, chunked, deleted from or inserted into the vector store.
C17_TranscriptionErrorNoSideEffects ==
    (Has(trail, "process_media") /\ error \in {"None", "decode failed"}) =>
        /\ node = "END"
        /\ status = "failed"
        /\ "error" \in keys
        /\ rag_ready_data = <<>>
        /\ ~json_saved
        /\ chunks = <<>>
        /\ store_log = <<>>

\* C17 happens: run_pipeline returned after the worker answered {error: "decode failed"}
C17_Witness ==
    /\ pipe = "done"
    /\ trail = <<"router", "process_media">>
    /\ error = "decode failed"
    /\ status = "failed"
    /\ store_log = <<>>
    /\ ~json_saved

IdsOf(cs) == {cs[k].id : k \in 1..Len(cs)}

\* the ids that source id, page or timestamp, and block position allow
PositionIds ==
    IF IsAudioData(chunk_data)
    THEN {ChunkId(chunk_file_id, "audio", 0, chunk_data[1].segments[k].start, -1) :
             k \in 1..Len(chunk_data[1].segments)}
    ELSE UNION {{ChunkId(chunk_file_id, "p", chunk_data[p].page,
                         chunk_data[p].blocks[j].bbox[2], part) :
                    j \in 1..Len(chunk_data[p].blocks), part \in -1..1} :
                 p \in {q \in 1..Len(chunk_data) : "blocks" \in DOMAIN chunk_data[q]}}

C19_ScoreIsStandardIoU ==
    gpc # "start" =>
        IF BoxArea(boxA) = 0 \/ BoxArea(boxB) = 0 THEN IsZero(iou_ab)
        ELSE (BoxArea(boxA) > 0 /\ BoxArea(boxB) > 0)
                => SameScore(iou_ab, StandardIoU(boxA, boxB))

\* C20: a table block whose content is the [EMPTY_TABLE] placeholder is sent
\* to the table-structure capability during enrichment.
C20_EmptyTablePlaceholderDispatched ==
    (/\ last.pre.type = "table"
     /\ last.pre.content = <<"[EMPTY_TABLE]">>
     /\ ~Degenerate(last.pre.bbox))
        => (last.log # <<>> /\ Head(last.log) = "table")

(***************************************************************************)
(* Claims about the enrichment of one block                                *)
(***************************************************************************)
\* the loop body has run on a block it does not skip
BlockHandled == bpc = "handled" /\ ~Degenerate(block.bbox)

\* a table whose content is empty or the image placeholder
TableNeedsEnrichment ==
    /\ block.type = "table"
    /\ (Strip(block.content) = <<>> \/ Has(block.content, "[IMAGE_BINARY]"))

\* the table-structure result is present and is not a placeholder
StructurePresent ==
    /\ table_result.kind = "dict"
    /\ table_result.markdown # <<>>
    /\ ~Has(table_result.markdown, "[TABLE_STRUCTURE_NOT_DETECTED]")
    /\ ~Has(table_result.markdown, "[TABLE_RECONSTRUCTION_FAILED]")

\* the text the recognition capability found, lines joined; empty when it
\* found none or gave no list
RecognizedText == IF ocr_results.kind = "list" THEN JoinLines(ocr_results.texts) ELSE <<>>

\* number of queries the loop body made to one capability
Queries(cap) == Cardinality({i \in 1..Len(handled.log) : handled.log[i] = cap})

\* C21: for a table block that needs enrichment the table-structure
\* capability is invoked once, first; a present, non-placeholder result is
\* adopted (action local_table_reconstructed) without invoking text
\* recognition; otherwise text recognition is invoked once and the block gets
\* action table_fallback_ocr with the recognized text, or [NO_TEXT_FOUND] when
\* that text is empty.
C21_TableFallbackChain ==
    (BlockHandled /\ TableNeedsEnrichment) =>
        /\ handled.log # <<>> /\ Head(handled.log) = "table"
        /\ Queries("table") = 1
        /\ IF StructurePresent
           THEN /\ Queries("ocr") = 0
                /\ handled.block.action = "local_table_reconstructed"
                /\ handled.block.content = table_result.markdown
           ELSE /\ Queries("ocr") = 1
                /\ handled.block.action = "table_fallback_ocr"
                /\ handled.block.content = IF Strip(RecognizedText) # <<>>
                                           THEN RecognizedText
                                           ELSE <<"[NO_TEXT_FOUND]">>

\* the capability the loop body queried last gave None: the worker was
\* unavailable or its answer was not JSON (WorkerManager.query lines 48-51)
LastQueryUnavailable ==
    /\ handled.log # <<>>
    /\ LET cap == handled.log[Len(handled.log)]
       IN  \/ cap = "table" /\ table_result.kind = "None"
           \/ cap = "ocr" /\ ocr_results.kind = "None"
           \/ cap = "vlm" /\ vlm_result.kind = "None"

\* C22: when a capability worker is unavailable or answers with malformed
\* JSON while a block is enriched, the block's content is replaced by an
\* explicit sentinel string, and the loop goes on without an exception.
C22_UnavailableWorkerGivesSentinel ==
    (BlockHandled /\ LastQueryUnavailable) =>
        /\ ~handled.raised
        /\ handled.block.content # block.content
        /\ Strip(handled.block.content) # <<>>

AtBlock == node = "enrich_content" /\ epc = "block" /\ block_idx <= Len(cleaned_blocks)

C29_InvokeReturns ==
    \A t \in Runs :
        (pc[t] \in {"get_worker", "start", "write", "read"})
            ~> (pc[t] \in {"returned", "raised"})

\* C30: in any interleaving of invoke calls, until teardown every process the
\* pool has started and that is still alive is the one recorded in the map
\* for its capability, so there is at most one live worker per capability.
C30_LiveWorkersAreRecorded ==
    ~torn => \A p \in Pids : alive[p] => \E c \in Capabilities : workers[c] = p

(***************************************************************************)
(* Claims about the worker processes                                       *)
(***************************************************************************)
\* C28: a worker exits when it reads the line EXIT; for every other input
\* line it writes exactly one JSON line before it reads the next, so the
\* response lines are always as many as the non-EXIT lines it has consumed.
C28_OneResponsePerLine ==
    /\ [](Len(wstdout) = consumed)
    /\ [][(running /\ wstdin # <<>> /\ wstdin' # wstdin) =>
            IF Head(wstdin) = <<"EXIT">>
            THEN ~running' /\ wstdout' = wstdout
            ELSE running' /\ Len(wstdout') = Len(wstdout) + 1]_vars

(***************************************************************************)
(* Claims about the cleanup before enrichment                              *)
(***************************************************************************)
\* a text or title block whose content is missing or, trimmed, shorter than 2
ShortTextBlock(b) ==
    /\ b.type = "text" \/ b.type = "title"
    /\ Len(b.content) = 0 \/ StrLen(Strip(b.content)) <= 1

RECURSIVE RemovesExactlyShortText(_, _)
\* out is blocks without its short text blocks, the others in their order
RemovesExactlyShortText(blocks, out) ==
    IF blocks = <<>> THEN out = <<>>
    ELSE IF ShortTextBlock(Head(blocks)) THEN RemovesExactlyShortText(Tail(blocks), out)
    ELSE /\ out # <<>>
         /\ Head(out) = Head(blocks)
         /\ RemovesExactlyShortText(Tail(blocks), Tail(out))

\* C25: the cleanup removes exactly the text and title blocks whose content
\* is missing or shorter than 2 characters after trimming; blocks of other
\* types are never removed and the kept blocks stay in their order.
C25_CleanupRemovesShortText ==
    kpc = "cleaned" => RemovesExactlyShortText(page_blocks, kept)

\* C25 happens: a padded one-character text goes, an empty table and a text
\* stay in their order
C25_Witness ==
    /\ kpc = "cleaned"
    /\ Len(page_blocks) = 3
    /\ page_blocks[1].type = "text" /\ page_blocks[1].content = <<" ", "x", "\n">>
    /\ page_blocks[2].type = "table" /\ page_blocks[2].content = <<>>
    /\ page_blocks[3].content = <<"Hello">>
    /\ kept = <<page_blocks[2], page_blocks[3]>>

(***************************************************************************)
(* Claims about the stream path and about unrecognized sources             *)
(***************************************************************************)
StreamDone == Has(trail, "process_youtube")

\* segments are exactly the entries, each normalized to start, end and text
Normalized(segments, entries) ==
    /\ Len(segments) = Len(entries)
    /\ \A i \in 1..Len(entries) :
          /\ DOMAIN segments[i] = {"start", "end", "text"}
          /\ segments[i].start = entries[i].start
          /\ segments[i].end = entries[i].start + entries[i].duration
          /\ segments[i].text = entries[i].text

\* C31: once the stream node has run, a source whose stream id cannot be
\* extracted, or whose transcript was not fetched, has status failed, a
\* non-empty error and no rag_ready_data; a completed stream run holds one
\* youtube_transcript record whose segments are the fetched entries, all of
\* them, each as start, end (start + duration) and text
C31_StreamFailsOrCarriesAllSegments ==
    StreamDone =>
        /\ status \in {"failed", "completed"}
        /\ (get_video_id(file_path) = "" \/ ~transcript.fetched) =>
              /\ status = "failed"
              /\ error \in {"Invalid YouTube URL", "Transcript unavailable"}
              /\ "rag_ready_data" \notin keys
              /\ rag_ready_data = <<>>
        /\ status = "completed" =>
              /\ transcript.fetched
              /\ Len(rag_ready_data) = 1
              /\ rag_ready_data[1].source = "youtube_transcript"
              /\ Normalized(rag_ready_data[1].segments, transcript.entries)

C31_Witness ==
    /\ StreamDone /\ node = "END" /\ status = "completed"
    /\ Len(transcript.entries) = 2
    /\ rag_ready_data[1].segments[2] = [start |-> 150, end |-> 350, text |-> <<"there">>]

\* no processing path supports the source: not a stream URL, not an audio or
\* video extension, not an extension process_file has a handler for
UnrecognizedSource ==
    /\ RouterType(file_path) = "document"
    /\ ~LayoutCanRaise(file_path)

\* C32: a run for a source of unrecognized kind never has status completed,
\* and once run_pipeline returned it has status failed, rag_ready_data.json
\* was not written and nothing was chunked or stored
C32_UnrecognizedSourceFails ==
    UnrecognizedSource =>
        /\ status # "completed"
        /\ pipe = "done" =>
              /\ status = "failed"
              /\ ~json_saved
              /\ chunks = <<>>
              /\ store_log = <<>>

(***************************************************************************)
(* Claims about the chunks of a run                                        *)
(***************************************************************************)
\* run_pipeline returned after a completed stream or media run
TranscriptRunDone ==
    /\ pipe = "done" /\ node = "END" /\ status = "completed"
    /\ (Has(trail, "process_youtube") \/ Has(trail, "process_media"))

\* C34: after a completed stream or media run whose record has a segment
\* with non-empty text, the chunker returned at least one chunk and the
\* text of every segment is part of the text of some chunk
C34_TranscriptRunIsChunked ==
    (/\ TranscriptRunDone
     /\ \E i \in 1..Len(rag_ready_data[1].segments) :
           rag_ready_data[1].segments[i].text # <<>>)
        => /\ chunks # <<>>
           /\ \A i \in 1..Len(rag_ready_data[1].segments) :
                 \E k \in 1..Len(chunks) :
                    Contains(chunks[k].text, rag_ready_data[1].segments[i].text)

(***************************************************************************)
(* Claims about what the merge engine and the enrichment keep              *)
(***************************************************************************)
\* C35: once intelligent_merge returned, the text of every base block is part
\* of the content of some returned block
C35_NoBaseContentLost ==
    mpc # "start" =>
        \A i \in 1..Len(base_blocks) :
           \E k \in 1..Len(merged) : Contains(merged[k].content, base_blocks[i].text)

\* a table consumed a base block and two of the other blocks were merged
C35_Witness ==
    /\ mpc = "merged"
    /\ Len(base_blocks) >= 3
    /\ ConsumedIndices(base_blocks, table_blocks) # {}
    /\ \E k \in 1..Len(merged) :
          /\ merged[k].type # "table"
          /\ Has(merged[k].content, "\n")
    /\ \A i \in 1..Len(base_blocks) :
          \E k \in 1..Len(merged) : Contains(merged[k].content, base_blocks[i].text)

\* C36: when the document path completed, the output holds one entry per
\* page of layout_results, in the same order and with the same page numbers
C36_EveryPageOnceInOrder ==
    (Has(trail, "enrich_content") /\ node = "END" /\ status = "completed") =>
        /\ Len(rag_ready_data) = Len(layout_results)
        /\ \A i \in 1..Len(layout_results) :
              rag_ready_data[i].page = layout_results[i].page

\* C37: two chunks of one process_json result that differ (in text or type)
\* have different ids
C37_ChunkIdsUnique ==
    cpc # "start" =>
        \A k, l \in 1..Len(first_chunks) :
           first_chunks[k] # first_chunks[l] => first_chunks[k].id # first_chunks[l].id

(***************************************************************************)
(* Claims about ingesting a file again                                     *)
(***************************************************************************)
\* the chunks the collection holds for the file
FileChunks == {c \in collection : c.id.file_id = RunFileId}

\* no task is between chunking and the end of add_chunks
NoTaskStoring == \A r \in Runs : spc[r] \in {"invoke", "done"}

\* C33: a step in which a task inserts its chunks leaves the collection
\* holding, for the file, exactly the chunks of that task; and while no task
\* is storing and none has inserted, the chunks stored before are all there
C33_ReingestionReplaces ==
    /\ [][Len(inserted') > Len(inserted) =>
             FileChunks' = AsSet(run_chunks[inserted'[Len(inserted')]])]_vars
    /\ []((NoTaskStoring /\ inserted = <<>>) => OldChunks \subseteq collection)

====
